---- MODULE Spec2Model ----
(***************************************************************************)
(* The download-and-cache layer of taiwan-stock-monitor: the five market   *)
(* downloaders (downloader_tw, downloader_us, downloader_cn,               *)
(* downloader_jp, downloader_kr).  One behaviour is a sequence of runs of  *)
(* one market's main(): the catalog is obtained, one unit per symbol is    *)
(* submitted to a ThreadPoolExecutor, worker threads execute the units     *)
(* step by step (sleep, provider call, write), and the calling thread      *)
(* drains the finished futures in completion order.                        *)
(***************************************************************************)
EXTENDS Integers, Sequences, FiniteSets, TLC

(***************************************************************************)
(* Bounds of the model.                                                    *)
(***************************************************************************)
\* number of successive invocations of main() in one behaviour
MaxRuns == 2
\* number of times the wall clock advances in one behaviour
MaxTicks == 1
\* number of calendar-day changes in one behaviour
MaxDays == 1
\* how far past the oldest future not yet consumed the pool runs ahead
MaxAhead == 4
\* number of symbols of the long catalog
LongRows == 51
\* number of symbols of the long catalog of downloader_tw
ThrottleRows == 103

(***************************************************************************)
(* Program constants.                                                      *)
(***************************************************************************)
TW_MAX_WORKERS == 3
TW_DATA_EXPIRY_SECONDS == 3600
US_MAX_WORKERS == 5
THREADS_CN == 4
JP_MAX_WORKERS == 4
JP_DATA_EXPIRY_SECONDS == 3600
THREADS == 4
\* "os.path.getsize(out_path) > 1000"
MinFileSize == 1000
\* "for attempt in range(2)"
TW_ATTEMPTS == 2
US_ATTEMPTS == 2
\* "if pbar.n % 100 == 0"
TW_THROTTLE_EVERY == 100
\* "if count % 50 == 0"
KR_CHECKPOINT_EVERY == 50
\* "threshold = 3000"
JP_threshold == 3000

Markets == {"TW", "US", "CN", "JP", "KR"}

(***************************************************************************)
(* The sleeps, in milliseconds: <<a, b>> stands for                       *)
(* time.sleep(random.uniform(a, b)).                                       *)
(***************************************************************************)
\* "time.sleep(random.uniform(0.5, 1.15))"
TW_PreSleep == <<500, 1150>>
\* "time.sleep(random.uniform(15, 30))"
TW_RateLimitSleep == <<15000, 30000>>
\* "time.sleep(random.uniform(3, 7))"
TW_RetrySleep == <<3000, 7000>>
\* "time.sleep(random.uniform(0.4, 1.2))"
US_PreSleep == <<400, 1200>>
\* "time.sleep(random.uniform(20, 40))"
US_RateLimitSleep == <<20000, 40000>>
\* "time.sleep(random.uniform(3, 6))"
US_RetrySleep == <<3000, 6000>>
\* "time.sleep(random.uniform(0.5, 1.5))"
CN_PreSleep == <<500, 1500>>
\* "time.sleep(random.uniform(0.6, 1.3))"
JP_PreSleep == <<600, 1300>>

(***************************************************************************)
(* The provider: tk.history() returns a frame with rows, a frame with rows *)
(* but no 'date' column, no rows (None or an empty frame), or raises; the  *)
(* message of the exception may contain "Rate limited".                    *)
(***************************************************************************)
ProviderOutcomes == {"rows", "rows_nodate", "norows", "raise", "ratelimited"}

\* CN, JP and KR never read the message of an exception: there a rate-limit
\* error is one more exception
PlainOutcomes == ProviderOutcomes \ {"ratelimited"}

\* str(e) of the exception of an outcome
ExcMsg(o) == IF o = "ratelimited" THEN "Rate limited" ELSE "Err"

\* the sizes in bytes a written CSV can have: a frame of a few rows stays at
\* or under the sanity threshold, a longer one exceeds it
CsvSizes == {MinFileSize, MinFileSize + 1}

\* how far the clock advances in one step, in seconds
TickSteps == {1, 3599, 3600}


(***************************************************************************)
(* Characters and names.  A display name is a sequence of characters.      *)
(***************************************************************************)
AlnumChars == {"A", "B", "C", "D", "I", "K", "N", "R", "T", "U", "Y", "a", "d", "r",
               "0", "1", "2", "3", "4", "5", "6", "7", "8", "9"}
KeptChars == {" ", "_", "-"}

RECURSIVE FilterChars(_)
FilterChars(s) ==
    IF s = <<>> THEN <<>>
    ELSE IF Head(s) \in AlnumChars \cup KeptChars
         THEN <<Head(s)>> \o FilterChars(Tail(s))
         ELSE FilterChars(Tail(s))

RECURSIVE LStrip(_)
LStrip(s) == IF s # <<>> /\ Head(s) = " " THEN LStrip(Tail(s)) ELSE s

RECURSIVE RStrip(_)
RStrip(s) ==
    IF s # <<>> /\ s[Len(s)] = " " THEN RStrip(SubSeq(s, 1, Len(s) - 1)) ELSE s

\* "".join([c for c in name if c.isalnum() or c in (' ', '_', '-')]).strip()
SafeName(name) == RStrip(LStrip(FilterChars(name)))

(***************************************************************************)
(* Items and paths.  An item is the string f"{ticker}&{name}", kept as a   *)
(* sequence of tokens: the ticker's parts, the separator "&" and the       *)
(* characters of the name.  A path is the sequence of tokens of the file   *)
(* name under the market's data directory.                                 *)
(***************************************************************************)
FormatItem(tkr, name) == tkr \o <<"&">> \o name

\* the position of the first "&" of an item, 0 when there is none
RECURSIVE FirstAmp(_, _)
FirstAmp(item, k) ==
    IF k > Len(item) THEN 0
    ELSE IF item[k] = "&" THEN k ELSE FirstAmp(item, k + 1)

\* item.split('&', 1)
SplitItem(item) ==
    LET k == FirstAmp(item, 1)
    IN  IF k = 0 THEN <<item>>
        ELSE <<SubSeq(item, 1, k - 1), SubSeq(item, k + 1, Len(item))>>

\* list(set(xs)): the duplicates are dropped (the order of a set is arbitrary;
\* the order of first occurrence is kept here)
RemoveDups(xs) ==
    LET first == {k \in 1..Len(xs) : \A j \in 1..(k - 1) : xs[j] # xs[k]}
        nth(n) == CHOOSE k \in first : Cardinality({j \in first : j < k}) = n - 1
    IN  [n \in 1..Cardinality(first) |-> xs[nth(n)]]

RECURSIVE Concat(_)
Concat(ss) == IF ss = <<>> THEN <<>> ELSE Head(ss) \o Concat(Tail(ss))

(***************************************************************************)
(* State.                                                                  *)
(***************************************************************************)
VARIABLES
    market,     \* the market whose downloader runs in this behaviour
    scale,      \* "small": short catalogs, any provider answer at every call;
                \* "long": one long catalog, the provider's answer fixed per symbol;
                \* "wide": catalogs longer than the pool; "timed": sleeps of
                \* either end of their range
    maxruns,    \* number of invocations of main() in this behaviour
    run,        \* number of invocations of main() so far
    mainpc,     \* position of the calling thread: idle, drain, throttle, done, crashed
    items,      \* the catalog of the current run (the manifest rows, in KR)
    units,      \* per submitted unit: its position and what it did
    stats,      \* the counters success / exists / empty / error
    drained,    \* pbar.n (count, in KR): futures consumed by the calling thread
    files,      \* the series-file store: path -> [size, age]
    ticks,      \* number of clock advances so far
    ret,        \* what the last completed main() returned
    prev,       \* item -> the status its unit had in the previous run
    today,      \* the calendar day
    listCache,  \* the catalog cache file of US and CN: [day, list], or NoCache
    fail_list,  \* JP: the tickers of the units that ended error or empty
    audit,      \* JP: the rows of the table sync_audit
    mf,         \* KR: the manifest table in memory
    manifest,   \* KR: the file kr_manifest.csv: [exists, rows]
    pipeline    \* main.py: the position of main() and of the market pipeline it runs,
                \* the steps begun (log), the markets whose pipeline met an
                \* exception (failed) and those whose report reached the
                \* notifier (notified)

vars == <<market, scale, maxruns, run, mainpc, items, units, stats, drained, files, ticks,
          ret, prev, today, listCache, fail_list, audit, mf, manifest, pipeline>>

\* main.py is not running
NoPipeline == [pc |-> "off"]

StatusKeys == {"success", "exists", "empty", "error"}
ZeroStats == [k \in StatusKeys |-> 0]

\* the durations a sleep of the given range can take: its two ends where the
\* behaviour keeps time, its lower end elsewhere
Sleep(range) == IF scale = "timed" THEN {range[1], range[2]} ELSE {range[1]}

NoRow == [code |-> <<>>, board |-> ""]
NewUnit == [pc |-> "queued", attempt |-> 0, calls |-> 0, sleeps |-> 0,
            outs |-> <<>>, status |-> "none", msg |-> "", wrote |-> FALSE,
            idx |-> 0, row |-> NoRow, slept |-> 0]

NoManifest == [exists |-> FALSE, rows |-> <<>>]

UnitIds == 1..Len(units)

\* the units that occupy a worker thread
Executing ==
    {i \in UnitIds : units[i].pc \in {"presleep", "call", "sleep_rl", "sleep_between"}}

\* ThreadPoolExecutor: max_workers threads take the submitted work items from
\* a FIFO queue
PoolSize ==
    CASE market = "TW" -> TW_MAX_WORKERS
      [] market = "US" -> US_MAX_WORKERS
      [] market = "CN" -> THREADS_CN
      [] market = "JP" -> JP_MAX_WORKERS
      [] market = "KR" -> THREADS

\* faulty variant: a queued unit starts although every thread is taken
NextQueued_NoLimit(i) ==
    /\ i \in UnitIds
    /\ units[i].pc = "queued"
    /\ \A j \in 1..(i - 1) : units[j].pc # "queued"
    /\ scale = "long" => \A j \in UnitIds : units[j].pc # "drained" => i < j + MaxAhead

NextQueued(i) ==
    /\ i \in UnitIds
    /\ units[i].pc = "queued"
    /\ \A j \in 1..(i - 1) : units[j].pc # "queued"
    /\ Cardinality(Executing) < PoolSize
    /\ scale = "long" => \A j \in UnitIds : units[j].pc # "drained" => i < j + MaxAhead

Exists(p) == p \in DOMAIN files

\* hist.to_csv(out_path): the file is created or overwritten
WriteFile(p, sz) ==
    [q \in DOMAIN files \cup {p} |-> IF q = p THEN [size |-> sz, age |-> 0] ELSE files[q]]

\* what the units of the run that ends returned, by item
RunStatuses ==
    [it \in {items[k] : k \in UnitIds} |->
        units[CHOOSE k \in UnitIds : items[k] = it].status]

Finish(u, st, m) == [u EXCEPT !.pc = "done", !.status = st, !.msg = m]

(***************************************************************************)
(* The clock.  The age of a file is read only when a unit starts, and the  *)
(* units read the ages of different files: the clock advances before a run *)
(* starts, which gives every age a unit can read.                          *)
(***************************************************************************)
Tick ==
    /\ market \in {"TW", "JP"}
    /\ ticks < MaxTicks
    /\ DOMAIN files # {}
    /\ mainpc \in {"idle", "done", "crashed"}
    /\ run < maxruns
    /\ \E d \in TickSteps :
          files' = [p \in DOMAIN files |-> [files[p] EXCEPT !.age = @ + d]]
    /\ ticks' = ticks + 1
    /\ UNCHANGED <<pipeline, market, scale, maxruns, run, mainpc, items, units, stats, drained, ret, prev, today, listCache, fail_list, audit, mf, manifest>>

(***************************************************************************)
(* downloader_tw                                                           *)
(***************************************************************************)
TW_url_configs ==
    << [name |-> "listed", suffix |-> ".TW"],
       [name |-> "dr", suffix |-> ".TW"],
       [name |-> "otc", suffix |-> ".TWO"],
       [name |-> "etf", suffix |-> ".TW"],
       [name |-> "rotc", suffix |-> ".TWO"],
       [name |-> "tw_innovation", suffix |-> ".TW"],
       [name |-> "otc_innovation", suffix |-> ".TWO"] >>

\* the rows of the listing pages: the first row of a page can repeat the
\* header, whose code cell holds the column title
TW_HeaderCode == "HEADER"
\* the code of the k-th row of the long page
TW_LongCode(k) ==
    LET digit(n) == <<"0", "1", "2", "3", "4", "5", "6", "7", "8", "9">>[n + 1]
    IN  "1" \o digit(k \div 100) \o digit((k \div 10) % 10) \o digit(k % 10)

TW_LongPage ==
    <<[code |-> TW_HeaderCode, name |-> <<"A">>]>> \o
    [k \in 1..ThrottleRows |-> [code |-> TW_LongCode(k), name |-> <<"A">>]]

TW_Page(name) ==
    CASE name = "listed" /\ scale = "long" -> TW_LongPage
      [] name = "listed" /\ scale \notin {"wide", "long"} ->
            << [code |-> TW_HeaderCode, name |-> <<"A">>],
               [code |-> "2330", name |-> <<"A", "B">>] >>
      [] name = "listed" /\ scale = "wide" ->
            << [code |-> TW_HeaderCode, name |-> <<"A">>],
               [code |-> "2330", name |-> <<"A", "B">>],
               [code |-> "2317", name |-> <<"C">>],
               [code |-> "1101", name |-> <<"D">>] >>
      [] name = "otc" -> << [code |-> "6488", name |-> <<"K", "Y", "*">>] >>
      [] name = "rotc" /\ scale = "wide" -> << [code |-> "6488", name |-> <<"K", "Y">>] >>
      [] OTHER -> <<>>

\* the items one configuration adds: "if code and '有價證券' not in code"
TW_PageItems(cfg) ==
    LET rows == TW_Page(cfg.name)
        keep == SelectSeq(rows, LAMBDA r : r.code # "" /\ r.code # TW_HeaderCode)
    IN  [k \in 1..Len(keep) |-> FormatItem(<<keep[k].code, cfg.suffix>>, keep[k].name)]

\* get_full_stock_list: ok is the set of configurations whose request and
\* parse succeed; the others are skipped by "except: continue"
TW_get_full_stock_list(ok) ==
    RemoveDups(Concat([k \in 1..Len(TW_url_configs) |->
        IF TW_url_configs[k].name \in ok THEN TW_PageItems(TW_url_configs[k]) ELSE <<>>]))

TW_ConfigNames == {TW_url_configs[k].name : k \in 1..Len(TW_url_configs)}

\* os.path.join(DATA_DIR, f"{yf_tkr}_{safe_name}.csv")
TW_out_path(item) ==
    LET parts == SplitItem(item)
    IN  parts[1] \o <<"_">> \o SafeName(parts[2]) \o <<".csv">>

\* faulty variant: a file aged exactly the expiry still counts as fresh
TW_IsFresh_Inclusive(p) ==
    /\ Exists(p)
    /\ files[p].age <= TW_DATA_EXPIRY_SECONDS
    /\ files[p].size > MinFileSize

\* faulty variant: the age comparison is the wrong way round
TW_IsFresh_Inverted(p) ==
    /\ Exists(p)
    /\ files[p].age > TW_DATA_EXPIRY_SECONDS
    /\ files[p].size > MinFileSize

\* lines 70-74: the file exists, is younger than the expiry and big enough
TW_IsFresh(p) ==
    /\ Exists(p)
    /\ files[p].age < TW_DATA_EXPIRY_SECONDS
    /\ files[p].size > MinFileSize

\* a worker takes the unit: parse, path, freshness check, then the first sleep
TW_Start(i) ==
    /\ market = "TW"
    /\ NextQueued(i)
    /\ LET parts == SplitItem(items[i])
       IN  units' = [units EXCEPT ![i] =
              IF Len(parts) < 2 THEN Finish(@, "error", "Format error")
              ELSE IF TW_IsFresh(TW_out_path(items[i])) THEN Finish(@, "exists", "")
              ELSE [@ EXCEPT !.pc = "presleep"]]
    /\ UNCHANGED <<pipeline, market, scale, maxruns, run, mainpc, items, stats, drained, files, ticks, ret, prev, today, listCache, fail_list, audit, mf, manifest>>

\* line 77 ends, tk = yf.Ticker(...), and attempt 0 calls tk.history()
TW_FirstCall(i) ==
    /\ market = "TW"
    /\ i \in UnitIds
    /\ units[i].pc = "presleep"
    /\ \E d \in Sleep(TW_PreSleep) :
          units' = [units EXCEPT ![i] = [@ EXCEPT !.pc = "call", !.attempt = 0,
                                                   !.calls = @ + 1, !.slept = @ + d]]
    /\ UNCHANGED <<pipeline, market, scale, maxruns, run, mainpc, items, stats, drained, files, ticks, ret, prev, today, listCache, fail_list, audit, mf, manifest>>

\* faulty variant: no rows ends the unit at once, whatever the attempt
TW_Return_EmptyFirst(i, o, sz) ==
    /\ market = "TW"
    /\ i \in UnitIds
    /\ units[i].pc = "call"
    /\ LET u == [units[i] EXCEPT !.outs = Append(@, o), !.slept = 0]
           final == (u.attempt = TW_ATTEMPTS - 1)
       IN  CASE o \in {"rows", "rows_nodate"} ->
                  /\ files' = WriteFile(TW_out_path(items[i]), sz)
                  /\ units' = [units EXCEPT ![i] =
                                  Finish([u EXCEPT !.wrote = TRUE], "success", "")]
             [] o = "norows" ->
                  /\ files' = files
                  /\ units' = [units EXCEPT ![i] = Finish(u, "empty", "")]
             [] o = "ratelimited" ->
                  /\ files' = files
                  /\ units' = [units EXCEPT ![i] = [u EXCEPT !.pc = "sleep_rl"]]
             [] o = "raise" ->
                  /\ files' = files
                  /\ units' = [units EXCEPT ![i] =
                        IF final THEN Finish(u, "error", ExcMsg(o))
                        ELSE [u EXCEPT !.pc = "sleep_between"]]
    /\ UNCHANGED <<pipeline, market, scale, maxruns, run, mainpc, items, stats, drained, ticks,
                   ret, prev, today, listCache, fail_list, audit, mf, manifest>>

\* lines 82-97: tk.history() returns or raises
TW_Return(i, o, sz) ==
    /\ market = "TW"
    /\ i \in UnitIds
    /\ units[i].pc = "call"
    /\ LET u == [units[i] EXCEPT !.outs = Append(@, o), !.slept = 0]
           final == (u.attempt = TW_ATTEMPTS - 1)
       IN  CASE o \in {"rows", "rows_nodate"} ->
                  /\ files' = WriteFile(TW_out_path(items[i]), sz)
                  /\ units' = [units EXCEPT ![i] =
                                  Finish([u EXCEPT !.wrote = TRUE], "success", "")]
             [] o = "norows" ->
                  /\ files' = files
                  /\ units' = [units EXCEPT ![i] =
                        IF final THEN Finish(u, "empty", "")
                        ELSE [u EXCEPT !.pc = "sleep_between"]]
             [] o = "ratelimited" ->
                  /\ files' = files
                  /\ units' = [units EXCEPT ![i] = [u EXCEPT !.pc = "sleep_rl"]]
             [] o = "raise" ->
                  /\ files' = files
                  /\ units' = [units EXCEPT ![i] =
                        IF final THEN Finish(u, "error", ExcMsg(o))
                        ELSE [u EXCEPT !.pc = "sleep_between"]]
    /\ UNCHANGED <<pipeline, market, scale, maxruns, run, mainpc, items, stats, drained, ticks, ret, prev, today, listCache, fail_list, audit, mf, manifest>>

\* faulty variant: the sleep after a rate-limit error is as short as the first one
TW_RateLimitWake_Short(i) ==
    /\ market = "TW"
    /\ i \in UnitIds
    /\ units[i].pc = "sleep_rl"
    /\ \E d \in Sleep(TW_PreSleep) :
          units' = [units EXCEPT ![i] =
             IF @.attempt = TW_ATTEMPTS - 1
             THEN Finish([@ EXCEPT !.slept = @ + d], "error", ExcMsg(@.outs[Len(@.outs)]))
             ELSE [@ EXCEPT !.pc = "sleep_between", !.slept = @ + d]]
    /\ UNCHANGED <<pipeline, market, scale, maxruns, run, mainpc, items, stats, drained, files, ticks, ret, prev, today, listCache, fail_list, audit, mf, manifest>>

\* line 96 ends: time.sleep(random.uniform(15, 30)), then line 97
TW_RateLimitWake(i) ==
    /\ market = "TW"
    /\ i \in UnitIds
    /\ units[i].pc = "sleep_rl"
    /\ \E d \in Sleep(TW_RateLimitSleep) :
          units' = [units EXCEPT ![i] =
             IF @.attempt = TW_ATTEMPTS - 1
             THEN Finish([@ EXCEPT !.slept = @ + d], "error", ExcMsg(@.outs[Len(@.outs)]))
             ELSE [@ EXCEPT !.pc = "sleep_between", !.slept = @ + d]]
    /\ UNCHANGED <<pipeline, market, scale, maxruns, run, mainpc, items, stats, drained, files, ticks, ret, prev, today, listCache, fail_list, audit, mf, manifest>>

\* line 99 ends: time.sleep(random.uniform(3, 7)); the loop goes on to the
\* next attempt, or falls out of range(2) to line 101
TW_RetryWake(i) ==
    /\ market = "TW"
    /\ i \in UnitIds
    /\ units[i].pc = "sleep_between"
    /\ \E d \in Sleep(TW_RetrySleep) :
          units' = [units EXCEPT ![i] =
             IF @.attempt + 1 < TW_ATTEMPTS
             THEN [@ EXCEPT !.pc = "call", !.attempt = @ + 1, !.calls = @ + 1,
                            !.sleeps = @ + 1, !.slept = @ + d]
             ELSE Finish([@ EXCEPT !.sleeps = @ + 1, !.slept = @ + d], "empty", "")]
    /\ UNCHANGED <<pipeline, market, scale, maxruns, run, mainpc, items, stats, drained, files, ticks, ret, prev, today, listCache, fail_list, audit, mf, manifest>>

\* main, lines 106-115: the catalog is fetched and every item submitted
TW_MainStart(ok) ==
    /\ market = "TW"
    /\ mainpc \in {"idle", "done", "crashed"}
    /\ run < maxruns
    /\ run' = run + 1
    /\ items' = TW_get_full_stock_list(ok)
    /\ units' = [k \in 1..Len(items') |-> NewUnit]
    /\ stats' = ZeroStats
    /\ drained' = 0
    /\ mainpc' = "drain"
    /\ ret' = [kind |-> "none"]
    /\ UNCHANGED <<pipeline, market, scale, maxruns, files, ticks, prev, today, listCache, fail_list, audit, mf, manifest>>

\* faulty variant: a unit that ended empty is not counted
TW_Drain_SkipsEmpty(i) ==
    /\ market = "TW"
    /\ mainpc = "drain"
    /\ i \in UnitIds
    /\ units[i].pc = "done"
    /\ stats' = IF units[i].status = "empty" THEN stats
                ELSE [stats EXCEPT ![units[i].status] = @ + 1]
    /\ drained' = drained + 1
    /\ units' = [units EXCEPT ![i] = [@ EXCEPT !.pc = "drained"]]
    /\ mainpc' = IF drained' % TW_THROTTLE_EVERY = 0 THEN "throttle" ELSE "drain"
    /\ UNCHANGED <<pipeline, market, scale, maxruns, run, items, files, ticks, ret, prev, today,
                   listCache, fail_list, audit, mf, manifest>>

\* one iteration of "for future in as_completed(futures)", lines 117-127
TW_Drain(i) ==
    /\ market = "TW"
    /\ mainpc = "drain"
    /\ i \in UnitIds
    /\ units[i].pc = "done"
    /\ stats' = [stats EXCEPT ![units[i].status] = @ + 1]
    /\ drained' = drained + 1
    /\ units' = [units EXCEPT ![i] = [@ EXCEPT !.pc = "drained"]]
    /\ mainpc' = IF drained' % TW_THROTTLE_EVERY = 0 THEN "throttle" ELSE "drain"
    /\ UNCHANGED <<pipeline, market, scale, maxruns, run, items, files, ticks, ret, prev, today, listCache, fail_list, audit, mf, manifest>>

\* line 127 ends: time.sleep(random.uniform(5, 10))
TW_ThrottleWake ==
    /\ market = "TW"
    /\ mainpc = "throttle"
    /\ mainpc' = "drain"
    /\ UNCHANGED <<pipeline, market, scale, maxruns, run, items, units, stats, drained, files, ticks, ret, prev, today, listCache, fail_list, audit, mf, manifest>>

\* faulty variant: the files that were already there are not counted as successes
TW_MainFinish_NewOnly ==
    /\ market = "TW"
    /\ mainpc = "drain"
    /\ \A i \in UnitIds : units[i].pc = "drained"
    /\ IF Len(items) = 0
       THEN /\ mainpc' = "crashed"
            /\ ret' = [kind |-> "ZeroDivisionError"]
       ELSE /\ mainpc' = "done"
            /\ ret' = [kind |-> "stats",
                       total |-> Len(items),
                       success |-> stats["success"],
                       fail |-> stats["error"] + stats["empty"]]
    /\ prev' = RunStatuses
    /\ UNCHANGED <<pipeline, market, scale, maxruns, run, items, units, stats, drained, files, ticks, today, listCache, fail_list, audit, mf, manifest>>

\* lines 129-153: the pool has drained; the summary is computed and returned.
\* Line 146 divides by total_expected.
TW_MainFinish ==
    /\ market = "TW"
    /\ mainpc = "drain"
    /\ \A i \in UnitIds : units[i].pc = "drained"
    /\ IF Len(items) = 0
       THEN /\ mainpc' = "crashed"
            /\ ret' = [kind |-> "ZeroDivisionError"]
       ELSE /\ mainpc' = "done"
            /\ ret' = [kind |-> "stats",
                       total |-> Len(items),
                       success |-> stats["success"] + stats["exists"],
                       fail |-> stats["error"] + stats["empty"]]
    /\ prev' = RunStatuses
    /\ UNCHANGED <<pipeline, market, scale, maxruns, run, items, units, stats, drained, files, ticks, today, listCache, fail_list, audit, mf, manifest>>

TW_Next ==
    \/ \E ok \in SUBSET TW_ConfigNames : TW_MainStart(ok)
    \/ \E i \in UnitIds : TW_Start(i)
    \/ \E i \in UnitIds : TW_FirstCall(i)
    \/ \E i \in UnitIds, o \in ProviderOutcomes, sz \in CsvSizes : TW_Return(i, o, sz)
    \/ \E i \in UnitIds : TW_RateLimitWake(i)
    \/ \E i \in UnitIds : TW_RetryWake(i)
    \/ \E i \in UnitIds : TW_Drain(i)
    \/ TW_MainFinish


(***************************************************************************)
(* downloader_us                                                           *)
(***************************************************************************)
NoCache == [day |-> -1, list |-> <<>>]

\* the calendar date changes; the date is read when a catalog is fetched
NewDay ==
    /\ market \in {"US", "CN"}
    /\ mainpc \in {"idle", "done", "crashed"}
    /\ run < maxruns
    /\ today < MaxDays
    /\ today' = today + 1
    /\ UNCHANGED <<pipeline, market, scale, maxruns, run, mainpc, items, units, stats, drained, files,
                   ticks, ret, prev, listCache, fail_list, audit, mf, manifest>>

\* str.upper() on the characters of the model
Upper(c) == CASE c = "a" -> "A" [] c = "d" -> "D" [] c = "r" -> "R" [] OTHER -> c

\* sub in s
Contains(s, sub) ==
    \E k \in 1..(Len(s) - Len(sub) + 1) : SubSeq(s, k, k + Len(sub) - 1) = sub

\* the exclude_keywords the names of the model can spell
US_exclude_keywords == {<<"U", "N", "I", "T">>, <<"A", "D", "R">>}

US_classify_security(name, is_etf) ==
    IF is_etf THEN "Exclude"
    ELSE LET n_upper == [k \in 1..Len(name) |-> Upper(name[k])]
         IN  IF \E kw \in US_exclude_keywords : Contains(n_upper, kw)
             THEN "Exclude" ELSE "Common Stock"

\* str.replace('$', '-')
ReplaceDollar(sym) == [k \in 1..Len(sym) |-> IF sym[k] = "$" THEN "-" ELSE sym[k]]

\* nasdaqlisted.txt and otherlisted.txt
US_nasdaqlisted_wide ==
    << [symbol |-> <<"A", "K">>, name |-> <<"K">>, test |-> "N", etf |-> "N", cat |-> "Q"],
       [symbol |-> <<"A", "N">>, name |-> <<"N">>, test |-> "N", etf |-> "N", cat |-> "G"],
       [symbol |-> <<"A", "R">>, name |-> <<"R">>, test |-> "N", etf |-> "N", cat |-> "Q"],
       [symbol |-> <<"A", "A">>, name |-> <<"A", "1", "!">>, test |-> "N", etf |-> "N", cat |-> "G"] >>
US_nasdaqlisted ==
    (IF scale = "wide" THEN US_nasdaqlisted_wide ELSE <<>>) \o
    << [symbol |-> <<"A", "A">>, name |-> <<"A", "1">>, test |-> "N", etf |-> "N", cat |-> "Q"],
       [symbol |-> <<"A", "B">>, name |-> <<"B", " ", "a", "d", "r">>, test |-> "N", etf |-> "N", cat |-> "Q"],
       [symbol |-> <<"A", "C">>, name |-> <<"C">>, test |-> "Y", etf |-> "N", cat |-> "G"],
       [symbol |-> <<"A", "D">>, name |-> <<"D">>, test |-> "N", etf |-> "Y", cat |-> "G"],
       [symbol |-> <<"A", "I">>, name |-> <<"I">>, test |-> "N", etf |-> "N", cat |-> "S"] >>
US_otherlisted ==
    << [symbol |-> <<"B", "$", "A">>, name |-> <<"B", "2", "!">>, test |-> "N", etf |-> "N", cat |-> "N"],
       [symbol |-> <<"B", "K">>, name |-> <<"K">>, test |-> "N", etf |-> "N", cat |-> "A"] >>

US_ListedItems(rows, cats) ==
    LET keep == SelectSeq(rows, LAMBDA r :
                    /\ r.test = "N"
                    /\ r.cat \in cats
                    /\ US_classify_security(r.name, r.etf = "Y") = "Common Stock")
    IN  [k \in 1..Len(keep) |-> FormatItem(ReplaceDollar(keep[k].symbol), keep[k].name)]

\* lines 50-75: the two requests; a failed one is logged and adds nothing
US_FetchList(ok1, ok2) ==
    RemoveDups((IF ok1 THEN US_ListedItems(US_nasdaqlisted, {"Q", "G"}) ELSE <<>>)
            \o (IF ok2 THEN US_ListedItems(US_otherlisted, {"N"}) ELSE <<>>))

\* lines 42-48: the cache file exists and was written today
US_CacheHit == listCache # NoCache /\ listCache.day = today

\* get_full_stock_list: the list it returns
US_get_full_stock_list(ok1, ok2) ==
    IF US_CacheHit THEN listCache.list ELSE US_FetchList(ok1, ok2)

\* get_full_stock_list: the cache file it leaves (lines 78-79)
US_CacheAfter(ok1, ok2) ==
    IF US_CacheHit THEN listCache
    ELSE [day |-> today, list |-> US_FetchList(ok1, ok2)]

US_out_path(item) ==
    LET parts == SplitItem(item)
    IN  parts[1] \o <<"_">> \o SafeName(parts[2]) \o <<".csv">>

\* line 97: the file exists and is big enough (no expiry in this market)
US_IsCached(p) == Exists(p) /\ files[p].size > MinFileSize

US_Start(i) ==
    /\ market = "US"
    /\ NextQueued(i)
    /\ LET parts == SplitItem(items[i])
       IN  units' = [units EXCEPT ![i] =
              IF Len(parts) < 2 THEN Finish(@, "error", "")
              ELSE IF US_IsCached(US_out_path(items[i])) THEN Finish(@, "exists", "")
              ELSE [@ EXCEPT !.pc = "presleep"]]
    /\ UNCHANGED <<pipeline, market, scale, maxruns, run, mainpc, items, stats, drained, files, ticks,
                   ret, prev, today, listCache, fail_list, audit, mf, manifest>>

\* line 101 ends and attempt 0 calls tk.history()
US_FirstCall(i) ==
    /\ market = "US"
    /\ i \in UnitIds
    /\ units[i].pc = "presleep"
    /\ \E d \in Sleep(US_PreSleep) :
          units' = [units EXCEPT ![i] = [@ EXCEPT !.pc = "call", !.attempt = 0,
                                                   !.calls = @ + 1, !.slept = @ + d]]
    /\ UNCHANGED <<pipeline, market, scale, maxruns, run, mainpc, items, stats, drained, files, ticks,
                   ret, prev, today, listCache, fail_list, audit, mf, manifest>>

\* faulty variant: a rate-limit error ends the unit
US_Return_RateLimitEnds(i, o, sz) ==
    /\ market = "US"
    /\ i \in UnitIds
    /\ units[i].pc = "call"
    /\ LET u == [units[i] EXCEPT !.outs = Append(@, o), !.slept = 0]
       IN  CASE o \in {"rows", "rows_nodate"} ->
                  /\ files' = WriteFile(US_out_path(items[i]), sz)
                  /\ units' = [units EXCEPT ![i] =
                                  Finish([u EXCEPT !.wrote = TRUE], "success", "")]
             [] o = "ratelimited" ->
                  /\ files' = files
                  /\ units' = [units EXCEPT ![i] = Finish(u, "empty", "")]
             [] OTHER ->
                  /\ files' = files
                  /\ units' = [units EXCEPT ![i] = [u EXCEPT !.pc = "sleep_between"]]
    /\ UNCHANGED <<pipeline, market, scale, maxruns, run, mainpc, items, stats, drained, ticks,
                   ret, prev, today, listCache, fail_list, audit, mf, manifest>>

\* lines 106-113: tk.history() returns or raises; the exception is swallowed
US_Return(i, o, sz) ==
    /\ market = "US"
    /\ i \in UnitIds
    /\ units[i].pc = "call"
    /\ LET u == [units[i] EXCEPT !.outs = Append(@, o), !.slept = 0]
       IN  CASE o \in {"rows", "rows_nodate"} ->
                  /\ files' = WriteFile(US_out_path(items[i]), sz)
                  /\ units' = [units EXCEPT ![i] =
                                  Finish([u EXCEPT !.wrote = TRUE], "success", "")]
             [] o = "ratelimited" ->
                  /\ files' = files
                  /\ units' = [units EXCEPT ![i] = [u EXCEPT !.pc = "sleep_rl"]]
             [] OTHER ->
                  /\ files' = files
                  /\ units' = [units EXCEPT ![i] = [u EXCEPT !.pc = "sleep_between"]]
    /\ UNCHANGED <<pipeline, market, scale, maxruns, run, mainpc, items, stats, drained, ticks,
                   ret, prev, today, listCache, fail_list, audit, mf, manifest>>

\* line 113 ends: time.sleep(random.uniform(20, 40)); line 114 follows
US_RateLimitWake(i) ==
    /\ market = "US"
    /\ i \in UnitIds
    /\ units[i].pc = "sleep_rl"
    /\ \E d \in Sleep(US_RateLimitSleep) :
          units' = [units EXCEPT ![i] = [@ EXCEPT !.pc = "sleep_between", !.slept = @ + d]]
    /\ UNCHANGED <<pipeline, market, scale, maxruns, run, mainpc, items, stats, drained, files, ticks,
                   ret, prev, today, listCache, fail_list, audit, mf, manifest>>

\* faulty variant: the loop runs one attempt more
US_RetryWake_Three(i) ==
    /\ market = "US"
    /\ i \in UnitIds
    /\ units[i].pc = "sleep_between"
    /\ \E d \in Sleep(US_RetrySleep) :
          units' = [units EXCEPT ![i] =
             IF @.attempt + 1 < US_ATTEMPTS + 1
             THEN [@ EXCEPT !.pc = "call", !.attempt = @ + 1, !.calls = @ + 1,
                            !.sleeps = @ + 1, !.slept = @ + d]
             ELSE Finish([@ EXCEPT !.sleeps = @ + 1, !.slept = @ + d], "empty", "")]
    /\ UNCHANGED <<pipeline, market, scale, maxruns, run, mainpc, items, stats, drained, files, ticks,
                   ret, prev, today, listCache, fail_list, audit, mf, manifest>>

\* line 114 ends: time.sleep(random.uniform(3, 6)); the next attempt, or after
\* the last one line 116
US_RetryWake(i) ==
    /\ market = "US"
    /\ i \in UnitIds
    /\ units[i].pc = "sleep_between"
    /\ \E d \in Sleep(US_RetrySleep) :
          units' = [units EXCEPT ![i] =
             IF @.attempt + 1 < US_ATTEMPTS
             THEN [@ EXCEPT !.pc = "call", !.attempt = @ + 1, !.calls = @ + 1,
                            !.sleeps = @ + 1, !.slept = @ + d]
             ELSE Finish([@ EXCEPT !.sleeps = @ + 1, !.slept = @ + d], "empty", "")]
    /\ UNCHANGED <<pipeline, market, scale, maxruns, run, mainpc, items, stats, drained, files, ticks,
                   ret, prev, today, listCache, fail_list, audit, mf, manifest>>

\* main, lines 120-128: "if not items: return", else every item is submitted
US_MainStart(ok1, ok2) ==
    /\ market = "US"
    /\ mainpc \in {"idle", "done", "crashed"}
    /\ run < maxruns
    /\ run' = run + 1
    /\ items' = US_get_full_stock_list(ok1, ok2)
    /\ listCache' = US_CacheAfter(ok1, ok2)
    /\ units' = [k \in 1..Len(items') |-> NewUnit]
    /\ stats' = ZeroStats
    /\ drained' = 0
    /\ ret' = [kind |-> "none"]
    /\ IF items' = <<>>
       THEN mainpc' = "done" /\ prev' = <<>>
       ELSE mainpc' = "drain" /\ prev' = prev
    /\ UNCHANGED <<pipeline, market, scale, maxruns, files, ticks, today, fail_list, audit, mf, manifest>>

\* one iteration of "for future in as_completed(futures)", lines 129-132
US_Drain(i) ==
    /\ market = "US"
    /\ mainpc = "drain"
    /\ i \in UnitIds
    /\ units[i].pc = "done"
    /\ stats' = [stats EXCEPT ![units[i].status] = @ + 1]
    /\ drained' = drained + 1
    /\ units' = [units EXCEPT ![i] = [@ EXCEPT !.pc = "drained"]]
    /\ UNCHANGED <<pipeline, market, scale, maxruns, run, mainpc, items, files, ticks, ret, prev,
                   today, listCache, fail_list, audit, mf, manifest>>

\* lines 134-136: the pool has drained and the counters are logged
US_MainFinish ==
    /\ market = "US"
    /\ mainpc = "drain"
    /\ \A i \in UnitIds : units[i].pc = "drained"
    /\ mainpc' = "done"
    /\ prev' = RunStatuses
    /\ UNCHANGED <<pipeline, market, scale, maxruns, run, items, units, stats, drained, files, ticks,
                   ret, today, listCache, fail_list, audit, mf, manifest>>

US_Next ==
    \/ \E ok1, ok2 \in BOOLEAN : US_MainStart(ok1, ok2)
    \/ \E i \in UnitIds : US_Start(i)
    \/ \E i \in UnitIds : US_FirstCall(i)
    \/ \E i \in UnitIds, o \in ProviderOutcomes, sz \in CsvSizes : US_Return(i, o, sz)
    \/ \E i \in UnitIds : US_RateLimitWake(i)
    \/ \E i \in UnitIds : US_RetryWake(i)
    \/ \E i \in UnitIds : US_Drain(i)
    \/ US_MainFinish

(***************************************************************************)
(* downloader_cn                                                           *)
(***************************************************************************)
Digits == {"0", "1", "2", "3", "4", "5", "6", "7", "8", "9"}

CN_valid_prefixes ==
    { <<"0", "0", "0">>, <<"0", "0", "1">>, <<"0", "0", "2">>, <<"0", "0", "3">>,
      <<"3", "0", "0">>, <<"3", "0", "1">>, <<"3", "0", "2">>, <<"6", "0", "0">>,
      <<"6", "0", "1">>, <<"6", "0", "3">>, <<"6", "0", "5">>, <<"6", "8", "8">>,
      <<"6", "8", "9">> }

\* ak.stock_info_a_code_name(): the rows of the registry
CN_stock_info_wide ==
    << [code |-> <<"0", "0", "0", "0", "0", "1">>, name |-> <<"C">>],
       [code |-> <<"0", "0", "0", "0", "0", "2">>, name |-> <<"D">>],
       [code |-> <<"3", "0", "0", "0", "0", "3">>, name |-> <<"I">>],
       [code |-> <<"6", "8", "8", "0", "0", "4">>, name |-> <<"K">>] >>
CN_stock_info ==
    << [code |-> <<"6", "0", "0", "5", "1", "9">>, name |-> <<"A">>],
       [code |-> <<"8", "3", "0", "0", "0", "1">>, name |-> <<"B">>] >>
    \o (IF scale = "wide" THEN CN_stock_info_wide ELSE <<>>)

\* the seed list of line 44 (its names are written in other characters than
\* the registry's)
CN_seed ==
    << FormatItem(<<"6", "0", "0", "5", "1", "9">>, <<"K">>),
       FormatItem(<<"0", "0", "0", "0", "0", "1">>, <<"Y">>) >>

\* lines 34-37: the registry's rows whose code starts with a valid prefix
CN_FetchList ==
    LET keep == SelectSeq(CN_stock_info, LAMBDA r :
                    Len(r.code) >= 3 /\ SubSeq(r.code, 1, 3) \in CN_valid_prefixes)
    IN  [k \in 1..Len(keep) |-> FormatItem(keep[k].code, keep[k].name)]

\* faulty variant: a cache file of any day is used
CN_CacheHit_AnyDay == listCache # NoCache

\* lines 24-26: the cache file exists and was written today
CN_CacheHit == listCache # NoCache /\ listCache.day = today

\* get_cn_list: the list it returns; ok is whether akshare answers
CN_get_cn_list(ok) ==
    IF CN_CacheHit THEN listCache.list
    ELSE IF ok THEN CN_FetchList ELSE CN_seed

\* get_cn_list: the cache file it leaves (lines 39-40)
CN_CacheAfter(ok) ==
    IF CN_CacheHit \/ ~ok THEN listCache
    ELSE [day |-> today, list |-> CN_FetchList]

\* os.path.join(DATA_DIR, f"{code}_{name}.csv")
CN_out_path(item) ==
    LET parts == SplitItem(item)
    IN  parts[1] \o <<"_">> \o parts[2] \o <<".csv">>

CN_IsCached(p) == Exists(p) /\ files[p].size > MinFileSize

\* lines 47-56: "code, name = item.split('&', 1)" raises on an item with no
\* "&", which line 66 turns into error
CN_Start(i) ==
    /\ market = "CN"
    /\ NextQueued(i)
    /\ LET parts == SplitItem(items[i])
       IN  units' = [units EXCEPT ![i] =
              IF Len(parts) < 2 THEN Finish(@, "error", "")
              ELSE IF CN_IsCached(CN_out_path(items[i])) THEN Finish(@, "exists", "")
              ELSE [@ EXCEPT !.pc = "presleep"]]
    /\ UNCHANGED <<pipeline, market, scale, maxruns, run, mainpc, items, stats, drained, files, ticks,
                   ret, prev, today, listCache, fail_list, audit, mf, manifest>>

\* line 56 ends and line 58 calls tk.history()
CN_Call(i) ==
    /\ market = "CN"
    /\ i \in UnitIds
    /\ units[i].pc = "presleep"
    /\ \E d \in Sleep(CN_PreSleep) :
          units' = [units EXCEPT ![i] = [@ EXCEPT !.pc = "call", !.calls = @ + 1,
                                                   !.slept = @ + d]]
    /\ UNCHANGED <<pipeline, market, scale, maxruns, run, mainpc, items, stats, drained, files, ticks,
                   ret, prev, today, listCache, fail_list, audit, mf, manifest>>

\* lines 58-67
CN_Return(i, o, sz) ==
    /\ market = "CN"
    /\ i \in UnitIds
    /\ units[i].pc = "call"
    /\ LET u == [units[i] EXCEPT !.outs = Append(@, o), !.slept = 0]
       IN  CASE o \in {"rows", "rows_nodate"} ->
                  /\ files' = WriteFile(CN_out_path(items[i]), sz)
                  /\ units' = [units EXCEPT ![i] =
                                  Finish([u EXCEPT !.wrote = TRUE], "success", "")]
             [] o = "norows" ->
                  /\ files' = files
                  /\ units' = [units EXCEPT ![i] = Finish(u, "empty", "")]
             [] OTHER ->
                  /\ files' = files
                  /\ units' = [units EXCEPT ![i] = Finish(u, "error", "")]
    /\ UNCHANGED <<pipeline, market, scale, maxruns, run, mainpc, items, stats, drained, ticks,
                   ret, prev, today, listCache, fail_list, audit, mf, manifest>>

\* main, lines 70-76
CN_MainStart(ok) ==
    /\ market = "CN"
    /\ mainpc \in {"idle", "done", "crashed"}
    /\ run < maxruns
    /\ run' = run + 1
    /\ items' = CN_get_cn_list(ok)
    /\ listCache' = CN_CacheAfter(ok)
    /\ units' = [k \in 1..Len(items') |-> NewUnit]
    /\ stats' = ZeroStats
    /\ drained' = 0
    /\ ret' = [kind |-> "none"]
    /\ mainpc' = "drain"
    /\ UNCHANGED <<pipeline, market, scale, maxruns, files, ticks, prev, today, fail_list, audit, mf,
                   manifest>>

\* one iteration of "for f in as_completed(futs)", lines 77-80
CN_Drain(i) ==
    /\ market = "CN"
    /\ mainpc = "drain"
    /\ i \in UnitIds
    /\ units[i].pc = "done"
    /\ stats' = [stats EXCEPT ![units[i].status] = @ + 1]
    /\ drained' = drained + 1
    /\ units' = [units EXCEPT ![i] = [@ EXCEPT !.pc = "drained"]]
    /\ UNCHANGED <<pipeline, market, scale, maxruns, run, mainpc, items, files, ticks, ret, prev,
                   today, listCache, fail_list, audit, mf, manifest>>

\* lines 81-82
CN_MainFinish ==
    /\ market = "CN"
    /\ mainpc = "drain"
    /\ \A i \in UnitIds : units[i].pc = "drained"
    /\ mainpc' = "done"
    /\ prev' = RunStatuses
    /\ UNCHANGED <<pipeline, market, scale, maxruns, run, items, units, stats, drained, files, ticks,
                   ret, today, listCache, fail_list, audit, mf, manifest>>

CN_Next ==
    \/ \E ok \in BOOLEAN : CN_MainStart(ok)
    \/ \E i \in UnitIds : CN_Start(i)
    \/ \E i \in UnitIds : CN_Call(i)
    \/ \E i \in UnitIds, o \in PlainOutcomes, sz \in CsvSizes : CN_Return(i, o, sz)
    \/ \E i \in UnitIds : CN_Drain(i)
    \/ CN_MainFinish

(***************************************************************************)
(* downloader_jp                                                           *)
(***************************************************************************)
\* the code column of the bundled TSE dataset
JP_tse_codes ==
    << <<"7", "2", "0", "3">>, <<"6", "7", "5", "8", "0">>, <<"7", "2", "0", "3">>,
       <<"A", "B">> >>

JP_seed == << <<"7", "2", "0", "3", ".T">> >>

\* lines 52-69: ok is whether the dataset can be read
JP_get_full_stock_list(ok) ==
    LET keep == SelectSeq(JP_tse_codes, LAMBDA c :
                    Len(c) >= 4 /\ \A k \in 1..4 : c[k] \in Digits)
        res == [k \in 1..Len(keep) |-> SubSeq(keep[k], 1, 4) \o <<".T">>]
        final_list == RemoveDups(res)
    IN  IF ok /\ Len(final_list) >= JP_threshold THEN final_list ELSE JP_seed

\* os.path.join(DATA_DIR, f"{symbol}.csv")
JP_out_path(symbol) == symbol \o <<".csv">>

\* lines 76-79
JP_IsFresh(p) ==
    /\ Exists(p)
    /\ files[p].age < JP_DATA_EXPIRY_SECONDS
    /\ files[p].size > MinFileSize

JP_Start(i) ==
    /\ market = "JP"
    /\ NextQueued(i)
    /\ units' = [units EXCEPT ![i] =
          IF JP_IsFresh(JP_out_path(items[i])) THEN Finish(@, "exists", "")
          ELSE [@ EXCEPT !.pc = "presleep"]]
    /\ UNCHANGED <<pipeline, market, scale, maxruns, run, mainpc, items, stats, drained, files, ticks,
                   ret, prev, today, listCache, fail_list, audit, mf, manifest>>

\* line 82 ends and line 84 calls tk.history()
JP_Call(i) ==
    /\ market = "JP"
    /\ i \in UnitIds
    /\ units[i].pc = "presleep"
    /\ \E d \in Sleep(JP_PreSleep) :
          units' = [units EXCEPT ![i] = [@ EXCEPT !.pc = "call", !.calls = @ + 1,
                                                   !.slept = @ + d]]
    /\ UNCHANGED <<pipeline, market, scale, maxruns, run, mainpc, items, stats, drained, files, ticks,
                   ret, prev, today, listCache, fail_list, audit, mf, manifest>>

\* lines 84-96: the file is written only when the frame has a date column
JP_Return(i, o, sz) ==
    /\ market = "JP"
    /\ i \in UnitIds
    /\ units[i].pc = "call"
    /\ LET u == [units[i] EXCEPT !.outs = Append(@, o), !.slept = 0]
       IN  CASE o = "rows" ->
                  /\ files' = WriteFile(JP_out_path(items[i]), sz)
                  /\ units' = [units EXCEPT ![i] =
                                  Finish([u EXCEPT !.wrote = TRUE], "success", "")]
             [] o \in {"rows_nodate", "norows"} ->
                  /\ files' = files
                  /\ units' = [units EXCEPT ![i] = Finish(u, "empty", "")]
             [] OTHER ->
                  /\ files' = files
                  /\ units' = [units EXCEPT ![i] = Finish(u, "error", "")]
    /\ UNCHANGED <<pipeline, market, scale, maxruns, run, mainpc, items, stats, drained, ticks,
                   ret, prev, today, listCache, fail_list, audit, mf, manifest>>

\* main, lines 100-115
JP_MainStart(ok) ==
    /\ market = "JP"
    /\ mainpc \in {"idle", "done", "crashed"}
    /\ run < maxruns
    /\ run' = run + 1
    /\ items' = JP_get_full_stock_list(ok)
    /\ units' = [k \in 1..Len(items') |-> NewUnit]
    /\ stats' = ZeroStats
    /\ fail_list' = <<>>
    /\ drained' = 0
    /\ ret' = [kind |-> "none"]
    /\ mainpc' = "drain"
    /\ UNCHANGED <<pipeline, market, scale, maxruns, files, ticks, prev, today, listCache, audit, mf,
                   manifest>>

\* one iteration of "for future in as_completed(futures)", lines 117-123
JP_Drain(i) ==
    /\ market = "JP"
    /\ mainpc = "drain"
    /\ i \in UnitIds
    /\ units[i].pc = "done"
    /\ stats' = [stats EXCEPT ![units[i].status] = @ + 1]
    /\ fail_list' = IF units[i].status \in {"error", "empty"}
                    THEN Append(fail_list, items[i]) ELSE fail_list
    /\ drained' = drained + 1
    /\ units' = [units EXCEPT ![i] = [@ EXCEPT !.pc = "drained"]]
    /\ UNCHANGED <<pipeline, market, scale, maxruns, run, mainpc, items, files, ticks, ret, prev,
                   today, listCache, audit, mf, manifest>>

\* faulty variant: the table is rewritten with the row of this run alone
JP_MainFinish_Replaces ==
    /\ market = "JP"
    /\ mainpc = "drain"
    /\ \A i \in UnitIds : units[i].pc = "drained"
    /\ LET total == Len(items)
           success == stats["success"] + stats["exists"]
           fail == stats["error"] + stats["empty"]
       IN  /\ audit' = Append(<<>>, [total_count |-> total, success_count |-> success,
                                       fail_count |-> fail])
           /\ ret' = [kind |-> "stats", total |-> total, success |-> success,
                      fail |-> fail, fail_list |-> fail_list]
    /\ mainpc' = "done"
    /\ prev' = RunStatuses
    /\ UNCHANGED <<pipeline, market, scale, maxruns, run, items, units, stats, drained, files, ticks,
                   today, listCache, fail_list, mf, manifest>>

\* lines 124-151: the audit row is inserted and the summary returned
JP_MainFinish ==
    /\ market = "JP"
    /\ mainpc = "drain"
    /\ \A i \in UnitIds : units[i].pc = "drained"
    /\ LET total == Len(items)
           success == stats["success"] + stats["exists"]
           fail == stats["error"] + stats["empty"]
       IN  /\ audit' = Append(audit, [total_count |-> total, success_count |-> success,
                                       fail_count |-> fail])
           /\ ret' = [kind |-> "stats", total |-> total, success |-> success,
                      fail |-> fail, fail_list |-> fail_list]
    /\ mainpc' = "done"
    /\ prev' = RunStatuses
    /\ UNCHANGED <<pipeline, market, scale, maxruns, run, items, units, stats, drained, files, ticks,
                   today, listCache, fail_list, mf, manifest>>

JP_Next ==
    \/ \E ok \in BOOLEAN : JP_MainStart(ok)
    \/ \E i \in UnitIds : JP_Start(i)
    \/ \E i \in UnitIds : JP_Call(i)
    \/ \E i \in UnitIds, o \in PlainOutcomes, sz \in CsvSizes : JP_Return(i, o, sz)
    \/ \E i \in UnitIds : JP_Drain(i)
    \/ JP_MainFinish

(***************************************************************************)
(* downloader_kr                                                           *)
(***************************************************************************)
\* str(code).zfill(6)
RECURSIVE Zfill6(_)
Zfill6(d) == IF Len(d) < 6 THEN Zfill6(<<"0">> \o d) ELSE d

\* map_symbol_kr
KR_map_symbol_kr(code, board) ==
    Zfill6(code) \o << IF board = "KS" THEN ".KS" ELSE ".KQ" >>

\* the decimal digits of int(d): pandas reads a column of digit strings back
\* as integers, which drops the leading zeros
RECURSIVE StripZeros(_)
StripZeros(d) == IF Len(d) > 1 /\ Head(d) = "0" THEN StripZeros(Tail(d)) ELSE d

\* DataFrame.to_csv(MANIFEST_CSV, index=False): the rows as text
ToCsv(rows) == rows

\* pd.read_csv(MANIFEST_CSV)
ReadCsv(rows) == [k \in 1..Len(rows) |-> [rows[k] EXCEPT !.code = StripZeros(@)]]

KR_Samsung == [code |-> <<"0", "0", "5", "9", "3", "0">>, name |-> <<"A">>, board |-> "KS"]
KR_Hynix == [code |-> <<"0", "0", "0", "6", "6", "0">>, name |-> <<"B">>, board |-> "KS"]
KR_Ecopro == [code |-> <<"2", "4", "7", "5", "4", "0">>, name |-> <<"C">>, board |-> "KQ"]

\* what KRX lists on a day (the listing changes from day to day)
\* the decimal digits of a natural number
RECURSIVE Dec(_)
Dec(n) ==
    LET d == <<"0", "1", "2", "3", "4", "5", "6", "7", "8", "9">>[(n % 10) + 1]
    IN  IF n < 10 THEN <<d>> ELSE Append(Dec(n \div 10), d)

KR_LongListing ==
    [k \in 1..LongRows |-> [code |-> Zfill6(Dec(k)), name |-> <<"A">>, board |-> "KS"]]

KR_Listing(v) ==
    CASE v = "a" -> <<KR_Samsung, KR_Hynix>>
      [] v = "b" -> <<KR_Ecopro, KR_Samsung>>
      [] v = "long" -> KR_LongListing
      [] v = "wide" -> SubSeq(KR_LongListing, 1, THREADS + 2)

\* the answers get_kr_list can get: a listing, or an exception
KR_Listings ==
    CASE scale = "long" -> {"long"}
      [] scale = "wide" -> {"wide"}
      [] OTHER -> {"a", "b", "fail"}

\* what tk.history() can answer to unit i
KR_Answers(i) ==
    IF scale # "small"
    THEN {<<"rows", "norows", "raise">>[(units[i].idx % 3) + 1]}
    ELSE PlainOutcomes

\* get_kr_list: any exception while listing gives the seed row of line 70
KR_get_kr_list(v) == IF v = "fail" THEN <<KR_Samsung>> ELSE KR_Listing(v)

\* os.path.join(DATA_DIR, f"{code}.{board}.csv")
KR_out_path(code, board) == code \o <<".", board, ".csv">>

\* lines 81-83: the file name without ".csv", split at "."
KR_FileKey(p) ==
    LET code_part == SubSeq(p, 1, Len(p) - 1)
        dots == {k \in 1..Len(code_part) : code_part[k] = "."}
    IN  IF dots = {} THEN <<>>
        ELSE LET k == CHOOSE d \in dots : \A e \in dots : d <= e
             IN  <<SubSeq(code_part, 1, k - 1), SubSeq(code_part, k + 1, Len(code_part))>>

\* lines 77-84: every row pending, but done where a series file exists
KR_NewManifest(df_list) ==
    [k \in 1..Len(df_list) |->
        [code |-> df_list[k].code, name |-> df_list[k].name, board |-> df_list[k].board,
         status |-> IF \E p \in DOMAIN files :
                          KR_FileKey(p) = <<df_list[k].code, <<df_list[k].board>> >>
                    THEN "done" ELSE "pending"]]

\* build_manifest: the table it returns
KR_build_manifest(df_list) ==
    IF manifest.exists THEN ReadCsv(manifest.rows) ELSE KR_NewManifest(df_list)

\* build_manifest: the manifest file it leaves (line 86)
KR_ManifestAfterBuild(df_list) ==
    IF manifest.exists THEN manifest
    ELSE [exists |-> TRUE, rows |-> ToCsv(KR_NewManifest(df_list))]

\* a cell that read_csv found missing in a row
KR_NaN == ""

\* MANIFEST_CSV.exists() holds but the file has no bytes: pd.read_csv raises
\* EmptyDataError
KR_Unreadable == manifest.exists /\ manifest.rows = <<>>

\* faulty variant: only the pending rows are taken up again
KR_Todo_PendingOnly(table) ==
    SelectSeq([k \in 1..Len(table) |-> k], LAMBDA k : table[k].status = "pending")

\* line 115: todo = mf[mf["status"] != "done"], as the indices of its rows
KR_Todo(table) == SelectSeq([k \in 1..Len(table) |-> k], LAMBDA k : table[k].status # "done")

\* main, lines 109-125
KR_MainStart(v) ==
    /\ market = "KR"
    /\ mainpc \in {"idle", "done", "crashed"}
    /\ run < maxruns
    /\ ~KR_Unreadable
    /\ run' = run + 1
    /\ items' = KR_get_kr_list(v)
    /\ mf' = KR_build_manifest(items')
    /\ manifest' = KR_ManifestAfterBuild(items')
    /\ LET todo == KR_Todo(mf')
       IN  /\ units' = [k \in 1..Len(todo) |->
                          [NewUnit EXCEPT !.idx = todo[k],
                                          !.row = [code |-> mf'[todo[k]].code,
                                                   board |-> mf'[todo[k]].board]]]
           /\ mainpc' = IF todo = <<>> THEN "done" ELSE "drain"
    /\ drained' = 0
    /\ ret' = [kind |-> "none"]
    /\ UNCHANGED <<pipeline, market, scale, maxruns, stats, files, ticks, prev, today, listCache,
                   fail_list, audit>>

\* download_one, lines 90-98: a worker takes the unit and calls tk.history()
KR_Start(i) ==
    /\ market = "KR"
    /\ NextQueued(i)
    /\ units[i].row.board # KR_NaN
    /\ units' = [units EXCEPT ![i] = [@ EXCEPT !.pc = "call", !.calls = @ + 1]]
    /\ UNCHANGED <<pipeline, market, scale, maxruns, run, mainpc, items, stats, drained, files, ticks,
                   ret, prev, today, listCache, fail_list, audit, mf, manifest>>

\* faulty variant: the worker marks its row in the shared table itself
KR_Return_Marks(i, o) ==
    /\ market = "KR"
    /\ i \in UnitIds
    /\ units[i].pc = "call"
    /\ LET u == [units[i] EXCEPT !.outs = Append(@, o), !.slept = 0]
           st == CASE o = "rows" -> "done"
                   [] o \in {"rows_nodate", "norows"} -> "empty"
                   [] OTHER -> "failed"
       IN  /\ files' = IF o = "rows"
                       THEN WriteFile(KR_out_path(u.row.code, u.row.board), MinFileSize + 1)
                       ELSE files
           /\ units' = [units EXCEPT ![i] =
                           Finish([u EXCEPT !.wrote = (o = "rows")], st, "")]
           /\ mf' = [mf EXCEPT ![u.idx] = [@ EXCEPT !.status = st]]
    /\ UNCHANGED <<pipeline, market, scale, maxruns, run, mainpc, items, stats, drained, ticks,
                   ret, prev, today, listCache, fail_list, audit, manifest>>

\* faulty variant: a frame with rows is reported done without being written
KR_Return_NoFile(i, o) ==
    /\ market = "KR"
    /\ i \in UnitIds
    /\ units[i].pc = "call"
    /\ LET u == [units[i] EXCEPT !.outs = Append(@, o), !.slept = 0]
       IN  units' = [units EXCEPT ![i] =
                        Finish(u, CASE o = "rows" -> "done"
                                    [] o \in {"rows_nodate", "norows"} -> "empty"
                                    [] OTHER -> "failed", "")]
    /\ UNCHANGED <<pipeline, market, scale, maxruns, run, mainpc, items, stats, drained, files, ticks,
                   ret, prev, today, listCache, fail_list, audit, mf, manifest>>

\* download_one, lines 98-106: standardize_df keeps a frame only if it has
\* rows and the date column
KR_Return(i, o) ==
    /\ market = "KR"
    /\ i \in UnitIds
    /\ units[i].pc = "call"
    /\ LET u == [units[i] EXCEPT !.outs = Append(@, o), !.slept = 0]
       IN  CASE o = "rows" ->
                  /\ files' = WriteFile(KR_out_path(u.row.code, u.row.board), MinFileSize + 1)
                  /\ units' = [units EXCEPT ![i] =
                                  Finish([u EXCEPT !.wrote = TRUE], "done", "")]
             [] o \in {"rows_nodate", "norows"} ->
                  /\ files' = files
                  /\ units' = [units EXCEPT ![i] = Finish(u, "empty", "")]
             [] OTHER ->
                  /\ files' = files
                  /\ units' = [units EXCEPT ![i] = Finish(u, "failed", "")]
    /\ UNCHANGED <<pipeline, market, scale, maxruns, run, mainpc, items, stats, drained, ticks,
                   ret, prev, today, listCache, fail_list, audit, mf, manifest>>

\* faulty variant: a failed row is put back to pending
KR_Drain_BackToPending(i) ==
    /\ market = "KR"
    /\ mainpc = "drain"
    /\ i \in UnitIds
    /\ units[i].pc = "done"
    /\ mf' = [mf EXCEPT ![units[i].idx] =
                 [@ EXCEPT !.status = IF units[i].status = "failed" THEN "pending"
                                      ELSE units[i].status]]
    /\ drained' = drained + 1
    /\ units' = [units EXCEPT ![i] = [@ EXCEPT !.pc = "drained"]]
    /\ mainpc' = IF drained' % KR_CHECKPOINT_EVERY = 0 THEN "checkpoint" ELSE "drain"
    /\ UNCHANGED <<pipeline, market, scale, maxruns, run, items, stats, files, ticks, ret, prev,
                   today, listCache, fail_list, audit, manifest>>

\* one iteration of "for f in as_completed(futures)", lines 128-135: the row
\* is marked and counted; every 50th completion goes on to line 136
KR_Drain(i) ==
    /\ market = "KR"
    /\ mainpc = "drain"
    /\ i \in UnitIds
    /\ units[i].pc = "done"
    /\ units[i].status # "raised"
    /\ mf' = [mf EXCEPT ![units[i].idx] = [@ EXCEPT !.status = units[i].status]]
    /\ drained' = drained + 1
    /\ units' = [units EXCEPT ![i] = [@ EXCEPT !.pc = "drained"]]
    /\ mainpc' = IF drained' % KR_CHECKPOINT_EVERY = 0 THEN "checkpoint" ELSE "drain"
    /\ UNCHANGED <<pipeline, market, scale, maxruns, run, items, stats, files, ticks, ret, prev,
                   today, listCache, fail_list, audit, manifest>>

\* faulty variant: the periodic checkpoint writes nothing
KR_Checkpoint_NoWrite ==
    /\ market = "KR"
    /\ mainpc = "checkpoint"
    /\ mainpc' = "drain"
    /\ UNCHANGED <<pipeline, market, scale, maxruns, run, items, units, stats, drained, files, ticks,
                   ret, prev, today, listCache, fail_list, audit, mf, manifest>>

\* line 136: mf.to_csv(MANIFEST_CSV, index=False)
KR_Checkpoint ==
    /\ market = "KR"
    /\ mainpc = "checkpoint"
    /\ manifest' = [exists |-> TRUE, rows |-> ToCsv(mf)]
    /\ mainpc' = "drain"
    /\ UNCHANGED <<pipeline, market, scale, maxruns, run, items, units, stats, drained, files, ticks,
                   ret, prev, today, listCache, fail_list, audit, mf>>

\* lines 138-142: the pool has drained and the table is written
KR_MainFinish ==
    /\ market = "KR"
    /\ mainpc = "drain"
    /\ \A i \in UnitIds : units[i].pc = "drained"
    /\ manifest' = [exists |-> TRUE, rows |-> ToCsv(mf)]
    /\ mainpc' = "done"
    /\ UNCHANGED <<pipeline, market, scale, maxruns, run, items, units, stats, drained, files, ticks,
                   ret, prev, today, listCache, fail_list, audit, mf>>

\* the process is interrupted during a run: what is in memory is lost, the
\* files stay
KR_Kill ==
    /\ market = "KR"
    /\ mainpc \in {"drain", "checkpoint"}
    /\ mainpc' = "crashed"
    /\ units' = <<>>
    /\ mf' = <<>>
    /\ drained' = 0
    /\ UNCHANGED <<pipeline, market, scale, maxruns, run, items, stats, files, ticks, ret, prev, today,
                   listCache, fail_list, audit, manifest>>

\* main, lines 109-113, on a manifest that cannot be parsed: the exception of
\* pd.read_csv (line 75) leaves build_manifest and main
KR_MainStartUnreadable(v) ==
    /\ market = "KR"
    /\ mainpc \in {"idle", "done", "crashed"}
    /\ run < maxruns
    /\ KR_Unreadable
    /\ run' = run + 1
    /\ items' = KR_get_kr_list(v)
    /\ mf' = <<>>
    /\ units' = <<>>
    /\ drained' = 0
    /\ mainpc' = "crashed"
    /\ ret' = [kind |-> "EmptyDataError"]
    /\ UNCHANGED <<pipeline, market, scale, maxruns, stats, files, ticks, prev, today, listCache,
                   fail_list, audit, manifest>>

\* download_one, lines 90-92, on a row whose board cell is missing: row['board']
\* is a float and board.upper() raises AttributeError before the try of
\* line 95; the exception is stored in the future
KR_StartRaises(i) ==
    /\ market = "KR"
    /\ NextQueued(i)
    /\ units[i].row.board = KR_NaN
    /\ units' = [units EXCEPT ![i] = Finish(@, "raised", "AttributeError")]
    /\ UNCHANGED <<pipeline, market, scale, maxruns, run, mainpc, items, stats, drained, files, ticks,
                   ret, prev, today, listCache, fail_list, audit, mf, manifest>>

\* line 129 on a future that holds an exception: f.result() raises it in the
\* calling thread, which leaves the loop; the with statement of line 123
\* waits for the units still queued or running (shutdown(wait=True))
KR_DrainRaises(i) ==
    /\ market = "KR"
    /\ mainpc = "drain"
    /\ i \in UnitIds
    /\ units[i].pc = "done"
    /\ units[i].status = "raised"
    /\ mainpc' = "unwinding"
    /\ ret' = [kind |-> units[i].msg]
    /\ UNCHANGED <<pipeline, market, scale, maxruns, run, items, units, stats, drained, files, ticks,
                   prev, today, listCache, fail_list, audit, mf, manifest>>

\* the pool has shut down and the exception leaves main: line 140 is not
\* reached
KR_Unwound ==
    /\ market = "KR"
    /\ mainpc = "unwinding"
    /\ \A i \in UnitIds : units[i].pc \in {"done", "drained"}
    /\ mainpc' = "crashed"
    /\ mf' = <<>>
    /\ UNCHANGED <<pipeline, market, scale, maxruns, run, items, units, stats, drained, files, ticks,
                   ret, prev, today, listCache, fail_list, audit, manifest>>

\* line 140: mf.to_csv raises (the file cannot be opened or written); nothing
\* catches it
KR_FinalWriteFails ==
    /\ market = "KR"
    /\ mainpc = "drain"
    /\ units # <<>>
    /\ \A i \in UnitIds : units[i].pc = "drained"
    /\ mainpc' = "crashed"
    /\ ret' = [kind |-> "OSError"]
    /\ mf' = <<>>
    /\ UNCHANGED <<pipeline, market, scale, maxruns, run, items, units, stats, drained, files, ticks,
                   prev, today, listCache, fail_list, audit, manifest>>

\* a row of which only the first cells reached the file
KR_CutRow(r) == [r EXCEPT !.board = KR_NaN, !.status = KR_NaN]

\* what an interrupted to_csv can leave of the rows it was writing (the file
\* is opened with mode "w", which empties it, and filled from the top): no
\* bytes, the first rows, or the first rows with the last of them cut
KR_TornFiles(rows) ==
    {<<>>} \cup
    {SubSeq(rows, 1, n) : n \in 1..(Len(rows) - 1)} \cup
    {SubSeq(rows, 1, n - 1) \o <<KR_CutRow(rows[n])>> : n \in 1..Len(rows)}

\* the process is interrupted inside mf.to_csv of line 140
KR_KillInWrite ==
    /\ market = "KR"
    /\ mainpc = "drain"
    /\ units # <<>>
    /\ \A i \in UnitIds : units[i].pc = "drained"
    /\ \E t \in KR_TornFiles(ToCsv(mf)) : manifest' = [exists |-> TRUE, rows |-> t]
    /\ mainpc' = "crashed"
    /\ units' = <<>>
    /\ mf' = <<>>
    /\ drained' = 0
    /\ UNCHANGED <<pipeline, market, scale, maxruns, run, items, stats, files, ticks, ret, prev, today,
                   listCache, fail_list, audit>>

KR_Next ==
    \/ \E v \in KR_Listings : KR_MainStart(v)
    \/ \E i \in UnitIds : KR_Start(i)
    \/ \E i \in UnitIds : \E o \in KR_Answers(i) : KR_Return(i, o)
    \/ \E i \in UnitIds : KR_Drain(i)
    \/ KR_MainFinish
    \/ KR_Kill

(***************************************************************************)
(* Initial states and specification.                                       *)
(***************************************************************************)
\* the series files a behaviour can start with: none, or the file of the
\* first symbol left by an earlier run
TW_Item1 == FormatItem(<<"2330", ".TW">>, <<"A", "B">>)
TW_Item2 == FormatItem(<<"6488", ".TWO">>, <<"K", "Y", "*">>)
US_Item1 == FormatItem(<<"A", "A">>, <<"A", "1">>)
InitFiles ==
    CASE market = "TW" ->
            {<<>>} \cup
            {[p \in {TW_out_path(TW_Item1)} |-> [size |-> sz, age |-> a]] :
                <<sz, a>> \in {<<MinFileSize + 1, 3599>>, <<MinFileSize + 1, 3600>>,
                               <<MinFileSize, 0>>}} \cup
            {[p \in {TW_out_path(TW_Item1), TW_out_path(TW_Item2)} |->
                [size |-> MinFileSize + 1,
                 age |-> IF p = TW_out_path(TW_Item1) THEN 3599 ELSE 3600]]}
      [] market = "US" ->
            {<<>>} \cup
            {[p \in {US_out_path(US_Item1)} |-> [size |-> sz, age |-> 0]] : sz \in CsvSizes}
      [] market = "CN" ->
            {<<>>} \cup
            {[p \in {CN_out_path(CN_seed[1])} |-> [size |-> sz, age |-> 0]] : sz \in CsvSizes}
      [] market = "JP" ->
            {<<>>} \cup
            {[p \in {JP_out_path(JP_seed[1])} |-> [size |-> sz, age |-> a]] :
                <<sz, a>> \in {<<MinFileSize + 1, 3599>>, <<MinFileSize + 1, 3600>>,
                               <<MinFileSize, 0>>}}
      [] market = "KR" ->
            {<<>>} \cup
            {[p \in {KR_out_path(KR_Samsung.code, KR_Samsung.board)} |->
                [size |-> MinFileSize + 1, age |-> 0]]}

\* the catalog cache a behaviour can start with: none, or the full list
\* cached by an earlier run on day 0
InitCaches ==
    CASE market = "US" -> {NoCache, [day |-> 0, list |-> US_FetchList(TRUE, TRUE)]}
      [] market = "CN" -> {NoCache, [day |-> 0, list |-> CN_FetchList]}
      [] OTHER -> {NoCache}

Init ==
    /\ market \in Markets
    /\ scale = "small"
    /\ maxruns = 1
    /\ run = 0
    /\ mainpc = "idle"
    /\ items = <<>>
    /\ units = <<>>
    /\ stats = ZeroStats
    /\ drained = 0
    /\ files \in InitFiles
    /\ ticks = 0
    /\ ret = [kind |-> "none"]
    /\ prev = <<>>
    /\ today = 0
    /\ listCache \in InitCaches
    /\ fail_list = <<>>
    /\ audit = <<>>
    /\ mf = <<>>
    /\ manifest = NoManifest
    /\ pipeline = NoPipeline

Next ==
    \/ Tick
    \/ NewDay
    \/ TW_Next
    \/ US_Next
    \/ CN_Next
    \/ JP_Next
    \/ KR_Next

Spec == Init /\ [][Next]_vars

\* the sizes of the file that a to_csv leaves when it raises after opening
\* out_path (no space left on the device, an I/O error): open() has truncated
\* the old file and any part of the new rows may have been written
TornSizes == {0} \cup CsvSizes

\* downloader_tw, line 89 raises: the handler of lines 94-97 takes over
TW_WriteFails(i, sz) ==
    /\ market = "TW"
    /\ i \in UnitIds
    /\ units[i].pc = "call"
    /\ files' = WriteFile(TW_out_path(items[i]), sz)
    /\ LET u == [units[i] EXCEPT !.outs = Append(@, "rows"), !.slept = 0, !.wrote = TRUE]
       IN  units' = [units EXCEPT ![i] =
               IF u.attempt = TW_ATTEMPTS - 1 THEN Finish(u, "error", ExcMsg("raise"))
               ELSE [u EXCEPT !.pc = "sleep_between"]]
    /\ UNCHANGED <<pipeline, market, scale, maxruns, run, mainpc, items, stats, drained, ticks,
                   ret, prev, today, listCache, fail_list, audit, mf, manifest>>

\* downloader_us, line 110 raises: lines 112-114 swallow the exception
US_WriteFails(i, sz) ==
    /\ market = "US"
    /\ i \in UnitIds
    /\ units[i].pc = "call"
    /\ files' = WriteFile(US_out_path(items[i]), sz)
    /\ units' = [units EXCEPT ![i] =
          [@ EXCEPT !.outs = Append(@, "rows"), !.slept = 0, !.wrote = TRUE, !.pc = "sleep_between"]]
    /\ UNCHANGED <<pipeline, market, scale, maxruns, run, mainpc, items, stats, drained, ticks,
                   ret, prev, today, listCache, fail_list, audit, mf, manifest>>

\* downloader_cn, line 63 raises: line 66-67 return error
CN_WriteFails(i, sz) ==
    /\ market = "CN"
    /\ i \in UnitIds
    /\ units[i].pc = "call"
    /\ files' = WriteFile(CN_out_path(items[i]), sz)
    /\ units' = [units EXCEPT ![i] =
          Finish([@ EXCEPT !.outs = Append(@, "rows"), !.slept = 0, !.wrote = TRUE], "error", "")]
    /\ UNCHANGED <<pipeline, market, scale, maxruns, run, mainpc, items, stats, drained, ticks,
                   ret, prev, today, listCache, fail_list, audit, mf, manifest>>

\* downloader_jp, line 92 raises in to_csv: lines 95-96 return error
JP_WriteFails(i, sz) ==
    /\ market = "JP"
    /\ i \in UnitIds
    /\ units[i].pc = "call"
    /\ files' = WriteFile(JP_out_path(items[i]), sz)
    /\ units' = [units EXCEPT ![i] =
          Finish([@ EXCEPT !.outs = Append(@, "rows"), !.slept = 0, !.wrote = TRUE], "error", "")]
    /\ UNCHANGED <<pipeline, market, scale, maxruns, run, mainpc, items, stats, drained, ticks,
                   ret, prev, today, listCache, fail_list, audit, mf, manifest>>

\* downloader_kr, line 102 raises: lines 105-106 return failed
KR_WriteFails(i, sz) ==
    /\ market = "KR"
    /\ i \in UnitIds
    /\ units[i].pc = "call"
    /\ files' = WriteFile(KR_out_path(units[i].row.code, units[i].row.board), sz)
    /\ units' = [units EXCEPT ![i] =
          Finish([@ EXCEPT !.outs = Append(@, "rows"), !.slept = 0, !.wrote = TRUE], "failed", "")]
    /\ UNCHANGED <<pipeline, market, scale, maxruns, run, mainpc, items, stats, drained, ticks,
                   ret, prev, today, listCache, fail_list, audit, mf, manifest>>

\* one invocation of main() of a retrying downloader on an empty data
\* directory, in which every sleep takes the shortest or the longest time of
\* its range
InitTimed ==
    /\ market \in {"TW", "US"}
    /\ scale = "timed"
    /\ maxruns = 1
    /\ run = 0
    /\ mainpc = "idle"
    /\ items = <<>>
    /\ units = <<>>
    /\ stats = ZeroStats
    /\ drained = 0
    /\ files = <<>>
    /\ ticks = 0
    /\ ret = [kind |-> "none"]
    /\ prev = <<>>
    /\ today = 0
    /\ listCache = NoCache
    /\ fail_list = <<>>
    /\ audit = <<>>
    /\ mf = <<>>
    /\ manifest = NoManifest
    /\ pipeline = NoPipeline

NextTimed ==
    \/ TW_Next
    \/ US_Next

SpecTimed == InitTimed /\ [][NextTimed]_vars

\* one invocation of downloader_tw.main() on an empty data directory with a
\* catalog of more than 100 symbols, the provider answering rows at every call
InitThrottle ==
    /\ market = "TW"
    /\ scale = "long"
    /\ maxruns = 1
    /\ run = 0
    /\ mainpc = "idle"
    /\ items = <<>>
    /\ units = <<>>
    /\ stats = ZeroStats
    /\ drained = 0
    /\ files = <<>>
    /\ ticks = 0
    /\ ret = [kind |-> "none"]
    /\ prev = <<>>
    /\ today = 0
    /\ listCache = NoCache
    /\ fail_list = <<>>
    /\ audit = <<>>
    /\ mf = <<>>
    /\ manifest = NoManifest
    /\ pipeline = NoPipeline

NextThrottle ==
    \/ TW_MainStart({"listed"})
    \/ \E i \in UnitIds : TW_Start(i)
    \/ \E i \in UnitIds : TW_FirstCall(i)
    \/ \E i \in UnitIds : TW_Return(i, "rows", MinFileSize + 1)
    \/ \E i \in UnitIds : TW_Drain(i)
    \/ TW_ThrottleWake
    \/ TW_MainFinish

SpecThrottle == InitThrottle /\ [][NextThrottle]_vars

\* one invocation of main() in which a write of a series file can fail
NextStore ==
    \/ Next
    \/ \E i \in UnitIds : \E sz \in TornSizes : TW_WriteFails(i, sz)
    \/ \E i \in UnitIds : \E sz \in TornSizes : US_WriteFails(i, sz)
    \/ \E i \in UnitIds : \E sz \in TornSizes : CN_WriteFails(i, sz)
    \/ \E i \in UnitIds : \E sz \in TornSizes : JP_WriteFails(i, sz)
    \/ \E i \in UnitIds : \E sz \in TornSizes : KR_WriteFails(i, sz)

SpecStore == Init /\ [][NextStore]_vars

\* one invocation of main() that nothing interrupts, in which every worker
\* thread and the calling thread keep running: a sleep ends, a provider call
\* returns or raises, the calling thread consumes a finished future
NextLive ==
    \/ Tick
    \/ NewDay
    \/ TW_Next
    \/ US_Next
    \/ CN_Next
    \/ JP_Next
    \/ \E v \in KR_Listings : KR_MainStart(v)
    \/ \E i \in UnitIds : KR_Start(i)
    \/ \E i \in UnitIds : \E o \in KR_Answers(i) : KR_Return(i, o)
    \/ \E i \in UnitIds : KR_Drain(i)
    \/ KR_MainFinish

SpecLive == Init /\ [][NextLive]_vars /\ WF_vars(NextLive)

\* successive invocations of main() of TW, US, CN or JP, the first one on an
\* empty data directory
InitRuns ==
    /\ market \in {"TW", "US", "CN", "JP"}
    /\ scale = "small"
    /\ maxruns = MaxRuns
    /\ run = 0
    /\ mainpc = "idle"
    /\ items = <<>>
    /\ units = <<>>
    /\ stats = ZeroStats
    /\ drained = 0
    /\ files = <<>>
    /\ ticks = 0
    /\ ret = [kind |-> "none"]
    /\ prev = <<>>
    /\ today = 0
    /\ listCache = NoCache
    /\ fail_list = <<>>
    /\ audit = <<>>
    /\ mf = <<>>
    /\ manifest = NoManifest
    /\ pipeline = NoPipeline

NextRuns ==
    \/ Tick
    \/ NewDay
    \/ TW_Next
    \/ US_Next
    \/ CN_Next
    \/ JP_Next

SpecRuns == InitRuns /\ [][NextRuns]_vars

\* successive invocations of downloader_kr.main(), some of them interrupted
InitKR ==
    /\ market = "KR"
    /\ scale = "small"
    /\ maxruns = MaxRuns
    /\ run = 0
    /\ mainpc = "idle"
    /\ items = <<>>
    /\ units = <<>>
    /\ stats = ZeroStats
    /\ drained = 0
    /\ files \in InitFiles
    /\ ticks = 0
    /\ ret = [kind |-> "none"]
    /\ prev = <<>>
    /\ today = 0
    /\ listCache = NoCache
    /\ fail_list = <<>>
    /\ audit = <<>>
    /\ mf = <<>>
    /\ manifest = NoManifest
    /\ pipeline = NoPipeline

NextKR == KR_Next

SpecKR == InitKR /\ [][NextKR]_vars

\* the provider's answer to the ticker of unit i, the same at every call, on
\* the wide catalogs
WideAnswer(i) ==
    CASE market = "TW" ->
            (CASE Head(items[i]) = "2317" -> "ratelimited"
               [] Head(items[i]) = "1101" -> "norows"
               [] OTHER -> "rows")
      [] market = "US" ->
            (CASE items[i][2] = "N" -> "norows"
               [] items[i][2] = "R" -> "ratelimited"
               [] OTHER -> "rows")
      [] market = "CN" ->
            (CASE items[i][6] = "1" -> "raise"
               [] items[i][6] = "2" -> "norows"
               [] OTHER -> "rows")
      [] OTHER -> "rows"

\* one invocation of main() on an empty data directory, with catalogs longer
\* than the pool has threads
InitWide ==
    /\ market \in Markets
    /\ scale = "wide"
    /\ maxruns = 1
    /\ run = 0
    /\ mainpc = "idle"
    /\ items = <<>>
    /\ units = <<>>
    /\ stats = ZeroStats
    /\ drained = 0
    /\ files = <<>>
    /\ ticks = 0
    /\ ret = [kind |-> "none"]
    /\ prev = <<>>
    /\ today = 0
    /\ listCache = NoCache
    /\ fail_list = <<>>
    /\ audit = <<>>
    /\ mf = <<>>
    /\ manifest = NoManifest
    /\ pipeline = NoPipeline

NextWide ==
    \/ \E ok \in SUBSET TW_ConfigNames : TW_MainStart(ok)
    \/ \E i \in UnitIds : TW_Start(i)
    \/ \E i \in UnitIds : TW_FirstCall(i)
    \/ \E i \in UnitIds : TW_Return(i, WideAnswer(i), MinFileSize + 1)
    \/ \E i \in UnitIds : TW_RateLimitWake(i)
    \/ \E i \in UnitIds : TW_RetryWake(i)
    \/ \E i \in UnitIds : TW_Drain(i)
    \/ TW_MainFinish
    \/ \E ok1, ok2 \in BOOLEAN : US_MainStart(ok1, ok2)
    \/ \E i \in UnitIds : US_Start(i)
    \/ \E i \in UnitIds : US_FirstCall(i)
    \/ \E i \in UnitIds : US_Return(i, WideAnswer(i), MinFileSize + 1)
    \/ \E i \in UnitIds : US_RateLimitWake(i)
    \/ \E i \in UnitIds : US_RetryWake(i)
    \/ \E i \in UnitIds : US_Drain(i)
    \/ US_MainFinish
    \/ \E ok \in BOOLEAN : CN_MainStart(ok)
    \/ \E i \in UnitIds : CN_Start(i)
    \/ \E i \in UnitIds : CN_Call(i)
    \/ \E i \in UnitIds : CN_Return(i, WideAnswer(i), MinFileSize + 1)
    \/ \E i \in UnitIds : CN_Drain(i)
    \/ CN_MainFinish
    \/ \E ok \in BOOLEAN : JP_MainStart(ok)
    \/ \E i \in UnitIds : JP_Start(i)
    \/ \E i \in UnitIds : JP_Call(i)
    \/ \E i \in UnitIds : JP_Return(i, WideAnswer(i), MinFileSize + 1)
    \/ \E i \in UnitIds : JP_Drain(i)
    \/ JP_MainFinish
    \/ \E v \in KR_Listings : KR_MainStart(v)
    \/ \E i \in UnitIds : KR_Start(i)
    \/ \E i \in UnitIds : \E o \in KR_Answers(i) : KR_Return(i, o)
    \/ \E i \in UnitIds : KR_Drain(i)
    \/ KR_MainFinish

SpecWide == InitWide /\ [][NextWide]_vars

\* successive invocations of downloader_kr.main() with failures of the
\* manifest file: a write that raises, a write that is interrupted
NextDisk ==
    \/ KR_Next
    \/ \E v \in KR_Listings : KR_MainStartUnreadable(v)
    \/ \E i \in UnitIds : KR_StartRaises(i)
    \/ \E i \in UnitIds : KR_DrainRaises(i)
    \/ KR_Unwound
    \/ KR_FinalWriteFails
    \/ KR_KillInWrite

SpecDisk == InitKR /\ [][NextDisk]_vars

\* one invocation of downloader_kr.main() on the long catalog
InitLong ==
    /\ market = "KR"
    /\ scale = "long"
    /\ maxruns = 1
    /\ run = 0
    /\ mainpc = "idle"
    /\ items = <<>>
    /\ units = <<>>
    /\ stats = ZeroStats
    /\ drained = 0
    /\ files = <<>>
    /\ ticks = 0
    /\ ret = [kind |-> "none"]
    /\ prev = <<>>
    /\ today = 0
    /\ listCache = NoCache
    /\ fail_list = <<>>
    /\ audit = <<>>
    /\ mf = <<>>
    /\ manifest = NoManifest
    /\ pipeline = NoPipeline

NextLong ==
    \/ KR_Next
    \/ KR_Checkpoint

SpecLong == InitLong /\ [][NextLong]_vars

-----------------------------------------------------------------------------
(* Properties of the per-market downloaders *)

Finished(u) == u.pc \in {"done", "drained"}

\* the number of drained units that came back with status k
DrainedWith(k) ==
    Cardinality({i \in UnitIds : units[i].pc = "drained" /\ units[i].status = k})

StatsSum == stats["success"] + stats["exists"] + stats["empty"] + stats["error"]

\* C1: in TW, JP, US and CN every drained unit is counted under exactly one
\* of success, exists, empty, error: each counter equals the number of
\* drained units with that status, and once main() is over the four counters
\* add up to the number of catalog entries.
C1_AggregateConservation ==
    market \in {"TW", "JP", "US", "CN"} =>
        /\ \A k \in StatusKeys : stats[k] = DrainedWith(k)
        /\ \A i \in UnitIds : Finished(units[i]) => units[i].status \in StatusKeys
        /\ StatsSum = drained
        /\ drained = Cardinality({i \in UnitIds : units[i].pc = "drained"})
        /\ (run > 0 /\ mainpc \in {"done", "crashed"} => StatsSum = Len(items))

C1_Witness ==
    /\ market = "TW"
    /\ mainpc = "done"
    /\ Len(items) = 2
    /\ stats["success"] = 1
    /\ stats["empty"] = 1

C3_ErrorClassification ==
    \A i \in UnitIds :
        LET u == units[i]
        IN  (/\ Finished(u)
             /\ u.calls >= 1
             /\ Len(u.outs) = u.calls
             /\ \A k \in 1..Len(u.outs) : u.outs[k] \in {"raise", "ratelimited"})
            => u.status = (IF market = "KR" THEN "failed" ELSE "error")

ItemPath(item) ==
    CASE market = "TW" -> TW_out_path(item)
      [] market = "US" -> US_out_path(item)
      [] market = "CN" -> CN_out_path(item)
      [] market = "JP" -> JP_out_path(item)
      [] OTHER -> <<>>

\* a worker thread takes unit i from the queue in this step
Starts(i) ==
    /\ run' = run
    /\ i \in DOMAIN units
    /\ i \in DOMAIN units'
    /\ units[i].pc = "queued"
    /\ units'[i].pc # "queued"

\* a unit resolved exists has made no provider call and has not slept
ExistsWithoutCall ==
    market \in {"TW", "JP"} =>
        \A i \in UnitIds :
            units[i].status = "exists" =>
                units[i].calls = 0 /\ units[i].sleeps = 0 /\ units[i].outs = <<>>

\* the step in which a worker takes a unit decides by the file alone
FreshnessStep ==
    market \in {"TW", "JP"} =>
        \A i \in DOMAIN units :
            (Starts(i) /\ (market = "TW" => Len(SplitItem(items[i])) >= 2)) =>
                LET p == ItemPath(items[i])
                    fresh == /\ p \in DOMAIN files
                             /\ files[p].size > 1000
                             /\ files[p].age < 3600
                IN  /\ units'[i].status = "exists" <=> fresh
                    /\ fresh => units'[i].pc = "done" /\ units'[i].calls = 0
                    /\ ~fresh => units'[i].pc = "presleep"
                    /\ files' = files

\* C5: in TW and JP a unit is resolved exists, without any provider call or
\* sleep, exactly when its file exists, holds more than 1000 bytes and is
\* younger than 3600 seconds; a file aged 3600 seconds or more, or of 1000
\* bytes or fewer, sends the unit on to the download.
C5_FreshnessGate == []ExistsWithoutCall /\ [][FreshnessStep]_vars

C5_Witness ==
    /\ market = "TW"
    /\ Len(units) = 2
    /\ units[1].status = "exists"
    /\ files[TW_out_path(items[1])].age = 3599
    /\ units[2].pc = "presleep"
    /\ TW_out_path(items[2]) \in DOMAIN files
    /\ files[TW_out_path(items[2])].age = 3600
    /\ files[TW_out_path(items[2])].size > 1000

\* the catalog of this run holds the entries of the previous run
SameCatalog == {items[k] : k \in 1..Len(items)} = DOMAIN prev

SecondRunStep ==
    (market \in {"TW", "JP", "US", "CN"} /\ run >= 2) =>
        \A i \in DOMAIN units :
            (Starts(i) /\ items[i] \in DOMAIN prev) =>
                LET p == ItemPath(items[i])
                    was == prev[items[i]]
                    inWindow == market \in {"TW", "JP"} => files[p].age < 3600
                IN  /\ was \in {"success", "exists"} => p \in DOMAIN files
                    /\ (was \in {"success", "exists"} /\ files[p].size > 1000 /\ inWindow) =>
                          /\ units'[i].pc = "done"
                          /\ units'[i].status = "exists"
                          /\ units'[i].calls = 0
                    /\ was \in {"empty", "error"} =>
                          /\ units'[i].pc = "presleep"
                          /\ units'[i].status = "none"

-----------------------------------------------------------------------------
(* Properties of the KR manifest *)

\* the rows of a table whose status is not done
NotDone(rows) == {k \in 1..Len(rows) : rows[k].status # "done"}

\* main() starts with a persisted manifest
ResumeStep ==
    (market = "KR" /\ run' = run + 1 /\ manifest.exists) =>
        LET rows == manifest.rows
        IN  /\ Len(units') = Cardinality(NotDone(rows))
            /\ {units'[k].idx : k \in 1..Len(units')} = NotDone(rows)
            /\ \A k \in 1..Len(units') :
                  /\ units'[k].pc = "queued"
                  /\ units'[k].row.code = StripZeros(rows[units'[k].idx].code)
                  /\ units'[k].row.board = rows[units'[k].idx].board
            /\ manifest' = manifest

\* C7: a KR run that finds a persisted manifest dispatches exactly one unit
\* for each of its rows whose status is not done and none for a done row,
\* whatever catalog get_kr_list returns in that run.
C7_Resumability == [][ResumeStep]_vars

C7_Witness ==
    /\ market = "KR"
    /\ run = 2
    /\ items = KR_Listing("b")
    /\ Len(mf) = 2
    /\ mf[1].status = "done"
    /\ Len(units) = 1
    /\ units[1].idx = 2
    /\ units[1].row.code = StripZeros(KR_Hynix.code)

DispatchedRows == {units[i].idx : i \in UnitIds}

\* the table while a run is under way: marked rows carry their unit's
\* result, the others are as the run found them
MarksMatchUnits ==
    (market = "KR" /\ run > 0 /\ mainpc \in {"drain", "checkpoint"}) =>
        /\ \A i \in UnitIds : units[i].calls <= 1
        /\ \A i, j \in UnitIds : i # j => units[i].idx # units[j].idx
        /\ \A i \in UnitIds :
              IF units[i].pc = "drained"
              THEN /\ mf[units[i].idx].status = units[i].status
                   /\ units[i].status \in {"done", "empty", "failed"}
              ELSE mf[units[i].idx].status # "done"
        /\ \A k \in 1..Len(mf) : k \notin DispatchedRows => mf[k].status = "done"

\* within a run the table changes only by the mark of one drained unit
MarkStep ==
    (market = "KR" /\ run' = run /\ mainpc' # "crashed" /\ mf' # mf) =>
        \E i \in UnitIds :
            /\ units[i].pc = "done"
            /\ units'[i].pc = "drained"
            /\ units[i].status \in {"done", "empty", "failed"}
            /\ mf' = [mf EXCEPT ![units[i].idx] = [@ EXCEPT !.status = units[i].status]]

\* C8: within a KR run every dispatched row is marked exactly once, with
\* done, empty or failed and never with pending; rows that were not
\* dispatched are not written; the fetch of a row is attempted once.
C8_StatusTransitions == []MarksMatchUnits /\ [][MarkStep]_vars

C8_Witness ==
    /\ market = "KR"
    /\ mainpc = "drain"
    /\ \E i, j \in UnitIds :
          /\ units[i].pc = "drained"
          /\ units[i].status = "failed"
          /\ mf[units[i].idx].status = "failed"
          /\ units[j].pc = "done"
          /\ units[j].status = "done"
          /\ mf[units[j].idx].status = "pending"

\* the marks made in memory that kr_manifest.csv does not hold
Unsaved ==
    {i \in UnitIds : /\ units[i].pc = "drained"
                     /\ manifest.rows[units[i].idx].status # mf[units[i].idx].status}

\* a run that dispatched units ends with the file equal to the table
FinalCheckpoint ==
    (market = "KR" /\ mainpc = "done" /\ Len(units) >= 1) =>
        /\ manifest.exists
        /\ manifest.rows = ToCsv(mf)
        /\ Unsaved = {}

WorkerStep ==
    \E i \in DOMAIN units :
        /\ i \in DOMAIN units'
        /\ units'[i].pc \in {"call", "done"}
        /\ units'[i].pc # units[i].pc

\* a step of the thread that runs main()
MainStep == mainpc' # mainpc \/ drained' # drained \/ run' # run

ManifestStep ==
    market = "KR" =>
        /\ (mf' # mf \/ manifest' # manifest) => MainStep /\ ~WorkerStep
        /\ WorkerStep => mf' = mf /\ manifest' = manifest
        /\ (run' = run /\ mf' # mf) => manifest' = manifest
        /\ (run' = run /\ manifest' # manifest) => mf' = mf

\* C10: in KR every mark of the table and every write of kr_manifest.csv is
\* a step of the thread that runs main(); a worker's step leaves both alone;
\* no step both marks and writes.
C10_ManifestMutualExclusion == [][ManifestStep]_vars

C10_Witness ==
    /\ market = "KR"
    /\ mainpc = "checkpoint"
    /\ \E i \in UnitIds : units[i].pc = "call"
    /\ Cardinality(Unsaved) = 50

-----------------------------------------------------------------------------
(* Failures inside a unit and failures of the files around it *)

\* the status values the draining loop of a market can count or mark
CountableStatuses ==
    IF market = "KR" THEN {"done", "empty", "failed"} ELSE StatusKeys

\* C11: in every downloader a unit that has finished holds a status value
\* the draining loop can count (a manifest status in KR), whatever the item
\* or manifest row it was given; no exception of a unit is raised by
\* future.result() in the calling thread, which goes on draining.
C11_FailureIsolation ==
    /\ \A i \in UnitIds : Finished(units[i]) => units[i].status \in CountableStatuses
    /\ mainpc # "unwinding"

\* main() starts on a manifest file that cannot be parsed
UnreadableStartStep ==
    (market = "KR" /\ run' = run + 1 /\ KR_Unreadable) =>
        /\ mainpc' = "drain"
        /\ Len(units') = Len(items')
        /\ \A k \in 1..Len(units') : /\ units'[k].pc = "queued"
                                     /\ units'[k].row.code = items'[k].code

\* a write of the manifest fails
WriteFailureStep ==
    (market = "KR" /\ run' = run /\ ret' # ret /\ ret'.kind = "OSError") =>
        mainpc' # "crashed"

\* C19: a KR run that finds a manifest it cannot read does not raise: it
\* takes every catalog symbol as pending and dispatches them all; a failing
\* write of the manifest does not end main() with an exception either.
C19_ManifestIOFailure == [][UnreadableStartStep /\ WriteFailureStep]_vars

\* main() starts and every request of its catalog function fails
AllRequestsFail ==
    /\ run' = run + 1
    /\ CASE market = "TW" -> items' = TW_get_full_stock_list({})
         [] market = "US" -> ~US_CacheHit /\ items' = US_FetchList(FALSE, FALSE)
         [] market = "CN" -> ~CN_CacheHit /\ items' = CN_get_cn_list(FALSE)
         [] market = "JP" -> items' = JP_get_full_stock_list(FALSE)
         [] market = "KR" -> items' = KR_get_kr_list("fail")

\* C12: in every market, when every request to the catalog source fails the
\* catalog function returns a list that is not empty, so at least one unit
\* is there to dispatch.
C12_SeedFallback == [][AllRequestsFail => items' # <<>>]_vars

\* main() of US or CN gets its catalog
CatalogCacheStep ==
    (market \in {"US", "CN"} /\ run' = run + 1) =>
        IF listCache # NoCache /\ listCache.day = today
        THEN /\ items' = listCache.list
             /\ listCache' = listCache
        ELSE IF market = "US"
             THEN /\ \E ok1, ok2 \in BOOLEAN : items' = US_FetchList(ok1, ok2)
                  /\ listCache' = [day |-> today, list |-> items']
             ELSE \/ /\ items' = CN_FetchList
                     /\ listCache' = [day |-> today, list |-> items']
                  \/ /\ items' = CN_seed
                     /\ listCache' = listCache

\* C13: in US and CN a cache file written on today's date is returned as
\* the catalog, whatever the source would answer, and is left as it is; a
\* cache file of another day, or none, is not returned: the catalog is what
\* the source answers (the seed in CN when it fails).
C13_CatalogDailyCache == [][CatalogCacheStep]_vars

C13_Witness ==
    /\ market = "CN"
    /\ run = 2
    /\ today = 1
    /\ listCache # NoCache
    /\ listCache.day = 0
    /\ listCache.list # CN_seed
    /\ items = CN_seed
    /\ mainpc = "drain"

\* main() has returned normally, after every submitted unit was consumed
ReturnedNormally ==
    /\ mainpc = "done"
    /\ \A i \in UnitIds : units[i].pc = "drained"
    /\ market # "KR" => StatsSum = Len(items)

\* C14: for every catalog the catalog function can return, the empty one
\* included, a main() that has started eventually returns normally, with
\* every submitted unit finished and counted; it never ends otherwise.
C14_RunTermination ==
    /\ [](mainpc # "crashed")
    /\ (run > 0) ~> ReturnedNormally

-----------------------------------------------------------------------------
(* The pool and the order of completion *)

\* C15: at every moment of a run the units that are executing, sleeping or
\* inside a provider call, are at most 3 in TW, 4 in CN, JP and KR and 5 in
\* US; every one of them holds one thread, so the others of the queue wait.
C15_BoundedConcurrency ==
    /\ Cardinality(Executing) <=
          (CASE market = "TW" -> 3
             [] market \in {"CN", "JP", "KR"} -> 4
             [] market = "US" -> 5)
    /\ \A i \in UnitIds :
          units[i].pc \in {"presleep", "call", "sleep_rl", "sleep_between"} =>
              i \in Executing

C15_Witness ==
    /\ market = "US"
    /\ Cardinality(Executing) = 5
    /\ \E i \in UnitIds : units[i].pc = "sleep_rl"
    /\ \E i \in UnitIds : units[i].pc = "call"
    /\ \E i \in UnitIds : units[i].pc = "queued"

\* the path of the series file that unit i checks and writes
UnitPath(i) ==
    IF market = "KR"
    THEN KR_out_path(units[i].row.code, units[i].row.board)
    ELSE ItemPath(items[i])

\* C17: the units of one run compute pairwise distinct output paths, so no two
\* of them ever check or write the same series file.
C17_NoWriteContention ==
    \A i, j \in UnitIds : i # j => UnitPath(i) # UnitPath(j)

\* lines 120-123 of downloader_tw.main: error_details, the number of consumed
\* error outcomes per message
TW_error_details ==
    LET errs == {i \in UnitIds : units[i].pc = "drained" /\ units[i].status = "error"}
    IN  [m \in {units[i].msg : i \in errs} |->
            Cardinality({i \in errs : units[i].msg = m})]

\* the outcome of unit i of a run on an empty store, read off the catalog and
\* the provider's answer to its ticker alone
OutcomeOf(i) ==
    CASE WideAnswer(i) = "rows" -> "success"
      [] WideAnswer(i) = "norows" -> "empty"
      [] OTHER -> IF market = "US" THEN "empty" ELSE "error"

CountersOf == [k \in StatusKeys |-> Cardinality({i \in UnitIds : OutcomeOf(i) = k})]

HistogramOf ==
    LET errs == {i \in UnitIds : OutcomeOf(i) = "error"}
    IN  [m \in {ExcMsg(WideAnswer(i)) : i \in errs} |->
            Cardinality({i \in errs : ExcMsg(WideAnswer(i)) = m})]

\* C16: with the catalog, the initial file store and the provider's answer per
\* symbol fixed, the final counters, the TW error histogram and the final KR
\* manifest statuses are the same whatever the order in which the workers ran
\* and the futures completed.
C16_OrderIndependence ==
    mainpc = "done" =>
        /\ market # "KR" => stats = CountersOf
        /\ market = "TW" => TW_error_details = HistogramOf
        /\ market = "KR" =>
              \A i \in UnitIds :
                  manifest.rows[units[i].idx].status =
                      (CASE KR_Answers(i) = {"rows"} -> "done"
                         [] KR_Answers(i) = {"norows"} -> "empty"
                         [] OTHER -> "failed")

-----------------------------------------------------------------------------
(* What a run may do to the series files *)

\* unit i returns in this step
EndsIn(i) ==
    /\ run' = run
    /\ i \in DOMAIN units
    /\ i \in DOMAIN units'
    /\ units[i].pc # "done"
    /\ units'[i].pc = "done"

\* the clock alone moves: the same files with the same contents, only older
ClockOnly ==
    /\ units' = units
    /\ DOMAIN files' = DOMAIN files
    /\ \A p \in DOMAIN files : files'[p].size = files[p].size

\* the store differs from the old one at most at path p, which it holds
OnlyAt(p) ==
    /\ p \in DOMAIN files'
    /\ \A q \in DOMAIN files' \ {p} : q \in DOMAIN files /\ files'[q] = files[q]

FileStoreStep ==
    /\ DOMAIN files \subseteq DOMAIN files'
    /\ \A i \in UnitIds :
          EndsIn(i) /\ units'[i].status \in {"exists", "empty", "error", "failed"} =>
              files' = files
    /\ files' # files =>
          \/ ClockOnly
          \/ \E i \in UnitIds :
                /\ EndsIn(i)
                /\ units'[i].status \in {"success", "done"}
                /\ OnlyAt(UnitPath(i))

\* C18: the store of series files changes only where a unit that ends success
\* (done in KR) creates or overwrites the file of its own symbol; a unit that
\* ends exists, empty, error or failed leaves every file as it was, and no
\* step removes a file.
C18_FileStoreFrame == [][FileStoreStep]_vars

-----------------------------------------------------------------------------
(* The summary that main() returns *)

\* the units of the run that ended with one of the statuses of S
EndedWith(S) == {i \in UnitIds : units[i].status \in S}

\* C20: the summary returned by downloader_tw.main and downloader_jp.main has
\* total = number of catalog symbols, success = success + exists, fail =
\* error + empty, so total = success + fail; in JP fail_list holds the tickers
\* of the units that ended error or empty, each once.
C20_RunSummary ==
    market \in {"TW", "JP"} /\ mainpc = "done" =>
        /\ ret.kind = "stats"
        /\ ret.total = Len(items)
        /\ ret.success = stats["success"] + stats["exists"]
        /\ ret.success = Cardinality(EndedWith({"success", "exists"}))
        /\ ret.fail = stats["error"] + stats["empty"]
        /\ ret.fail = Cardinality(EndedWith({"error", "empty"}))
        /\ ret.total = ret.success + ret.fail
        /\ market = "JP" =>
              /\ Len(ret.fail_list) = ret.fail
              /\ {ret.fail_list[k] : k \in 1..Len(ret.fail_list)} =
                     {items[i] : i \in EndedWith({"error", "empty"})}
              /\ \A k, l \in 1..Len(ret.fail_list) :
                     ret.fail_list[k] = ret.fail_list[l] => k = l

C20_Witness ==
    /\ market = "JP"
    /\ mainpc = "done"
    /\ run = 2
    /\ ret.total = 1
    /\ ret.fail = 1
    /\ ret.fail_list = <<items[1]>>
    /\ units[1].status = "empty"

-----------------------------------------------------------------------------
(* The audit table of downloader_jp *)

\* main() of downloader_jp returns in this step
JP_Returns == market = "JP" /\ mainpc = "drain" /\ mainpc' = "done"

AuditStep ==
    /\ JP_Returns =>
          /\ \A i \in UnitIds : units[i].pc = "drained"
          /\ drained = Len(items)
          /\ Len(audit') = Len(audit) + 1
          /\ ret'.kind = "stats"
    /\ audit' # audit => JP_Returns
    /\ Len(audit') >= Len(audit)
    /\ \A k \in 1..Len(audit) : audit'[k] = audit[k]
    /\ \A k \in (Len(audit) + 1)..Len(audit') :
          /\ audit'[k].success_count + audit'[k].fail_count = audit'[k].total_count
          /\ audit'[k].total_count = Len(items)

\* C21: every run of downloader_jp.main that drains its pool appends exactly
\* one row to sync_audit, after the last unit was counted and before it
\* returns; the rows of earlier runs are neither changed nor removed; the new
\* row has success_count + fail_count = total_count.
C21_AuditLog == [][AuditStep]_vars

C21_Witness ==
    /\ market = "JP"
    /\ mainpc = "done"
    /\ run = 2
    /\ Len(audit) = 2
    /\ audit[1].success_count = 1
    /\ audit[2].fail_count = 1

-----------------------------------------------------------------------------
(* The sleeps of the retrying fetchers, TW and US *)

\* unit i issues its second provider call in this step
Retries(i) ==
    /\ run' = run
    /\ i \in DOMAIN units
    /\ i \in DOMAIN units'
    /\ units[i].pc = "sleep_between"
    /\ units'[i].pc = "call"

\* the last answer of the provider to unit i
LastOut(i) == units[i].outs[Len(units[i].outs)]

BackoffStep ==
    \A i \in UnitIds :
        Retries(i) =>
            LET total == units'[i].slept
            IN  /\ market = "TW" /\ LastOut(i) = "ratelimited" =>
                      total >= 15000 + 3000 /\ total > 7000
                /\ market = "TW" /\ LastOut(i) # "ratelimited" =>
                      total >= 3000 /\ total <= 7000
                /\ market = "US" /\ LastOut(i) = "ratelimited" =>
                      total >= 20000 + 3000 /\ total > 6000
                /\ market = "US" /\ LastOut(i) # "ratelimited" =>
                      total >= 3000 /\ total <= 6000

\* C22: after an attempt that raised an error with "Rate limited" in its
\* message the unit sleeps, before the next attempt, at least 15+3 s in TW and
\* 20+3 s in US, more than the longest baseline sleep (7 s, 6 s); after any
\* other failed attempt it sleeps the baseline time only.
C22_RateLimitBackoff == [][BackoffStep]_vars

C22_Witness ==
    /\ market = "TW"
    /\ \E i \in UnitIds :
          /\ units[i].pc = "call"
          /\ units[i].attempt = 1
          /\ units[i].outs = <<"ratelimited">>
          /\ units[i].slept = 18000
    /\ \E i \in UnitIds :
          /\ units[i].pc = "call"
          /\ units[i].attempt = 1
          /\ units[i].outs = <<"raise">>
          /\ units[i].slept = 7000

\* the unit has made a provider call and has returned
Fetched(u) == Finished(u) /\ Len(u.outs) >= 1

C24_SleepBetweenAttemptsOnly ==
    market \in {"TW", "US"} =>
        \A i \in UnitIds :
            /\ units[i].pc = "sleep_between" => units[i].attempt = 0
            /\ units[i].sleeps <= 1

\* C25: in every downloader a unit that is inside a provider call has slept,
\* for a time that is more than zero, since it started or since its previous
\* provider call returned.
C25_PreAttemptJitter ==
    \A i \in UnitIds : units[i].pc = "call" => units[i].slept > 0

-----------------------------------------------------------------------------
(* The pause of downloader_tw.main *)

ThrottleStep ==
    /\ drained' # drained /\ drained' > 0 /\ drained' % 100 = 0 => mainpc' = "throttle"
    /\ mainpc = "throttle" =>
          /\ drained' = drained
          /\ \A i \in UnitIds :
                /\ units[i].pc = "queued" => units'[i].pc = "queued"
                /\ units'[i].pc = "call" => units[i].pc = "call"

\* C26: in downloader_tw.main the calling thread pauses each time the count
\* of completed units reaches a multiple of 100, and while the pause lasts no
\* completion is consumed, no worker starts a unit and no worker issues a
\* provider call.
C26_GlobalThrottle == [][ThrottleStep]_vars

-----------------------------------------------------------------------------
(* The manifest of downloader_kr across runs *)

\* downloader_kr.main() starts in this step
KR_Begins == market = "KR" /\ run' = run + 1

\* build_manifest without a persisted manifest: one row per catalog symbol,
\* done exactly where the series file of the symbol exists, pending elsewhere,
\* and the table on disk before any unit leaves the queue
FreshManifestStep ==
    KR_Begins /\ ~manifest.exists =>
        /\ Len(mf') = Len(items')
        /\ \A k \in 1..Len(mf') :
              /\ mf'[k].code = items'[k].code
              /\ mf'[k].board = items'[k].board
              /\ mf'[k].status \in {"done", "pending"}
              /\ mf'[k].status = "done" <=>
                     KR_out_path(items'[k].code, items'[k].board) \in DOMAIN files
        /\ manifest' = [exists |-> TRUE, rows |-> mf']
        /\ \A i \in DOMAIN units' : units'[i].pc = "queued"

\* build_manifest with a persisted manifest: the table of the file as it is
KeptManifestStep ==
    KR_Begins /\ manifest.exists =>
        /\ mf' = manifest.rows
        /\ manifest' = manifest

\* C27: build_manifest without a persisted manifest yields one row per catalog
\* symbol, done if and only if the file <code>.<board>.csv exists and pending
\* otherwise, and persists the table before any unit is dispatched; with a
\* persisted manifest it returns that manifest unchanged, without looking at
\* the data directory.
C27_ManifestInitialisation == [][FreshManifestStep /\ KeptManifestStep]_vars

-----------------------------------------------------------------------------
(* What the catalog cache of US and CN may hold *)

\* what the catalog function returns when every request succeeds
FullCatalog == IF market = "US" THEN US_FetchList(TRUE, TRUE) ELSE CN_FetchList

\* main() of US or CN starts, misses the cache, and a request to the source fails
FailedQuery ==
    /\ market \in {"US", "CN"}
    /\ run' = run + 1
    /\ ~(listCache # NoCache /\ listCache.day = today)
    /\ items' # FullCatalog

\* main() of US or CN starts and takes its catalog from the cache
ServedFromCache ==
    /\ market \in {"US", "CN"}
    /\ run' = run + 1
    /\ listCache # NoCache /\ listCache.day = today

CacheWriteStep ==
    /\ FailedQuery => listCache' = listCache
    /\ ServedFromCache => items' = FullCatalog

\* C28: in US and CN a call of the catalog function in which a request to
\* the source failed leaves the cache file as it was, so that a later call on
\* the same day never gets an empty or partial list from the cache.
C28_CacheNeverStoresFailure == [][CacheWriteStep]_vars

\* the rows of the persisted manifest whose status is in S
PersistedWith(S) == {k \in 1..Len(manifest.rows) : manifest.rows[k].status \in S}

DoneAbsorbingStep ==
    /\ \A k \in PersistedWith({"done"}) :
          /\ manifest'.exists
          /\ k <= Len(manifest'.rows)
          /\ manifest'.rows[k].status = "done"
    /\ KR_Begins /\ manifest.exists =>
          LET dispatched == {units'[i].idx : i \in DOMAIN units'}
          IN  /\ dispatched \cap PersistedWith({"done"}) = {}
              /\ PersistedWith({"pending", "empty", "failed"}) \subseteq dispatched
    /\ run' = run /\ mf' # <<>> =>
          \A k \in 1..Len(mf) : mf[k].status = "done" => mf'[k].status = "done"

\* C29: across runs of downloader_kr, interrupted ones included, a row that is
\* persisted as done is never dispatched again and never gets another status,
\* while the rows persisted as empty or failed (or pending) are dispatched by
\* the next run.
C29_DoneAbsorbing == [][DoneAbsorbingStep]_vars

\* ---------------------------------------------------------------------
\* The series files behind the done rows of downloader_kr
\* ---------------------------------------------------------------------

\* the data directory holds a series file of the symbol of row r: a file
\* <code>.<board>.csv whose code is r.code up to leading zeros, as
\* map_symbol_kr fills the code to six digits
HasSeries(r) ==
    \E p \in DOMAIN files :
        LET key == KR_FileKey(p)
        IN  /\ key # <<>>
            /\ Zfill6(key[1]) = Zfill6(r.code)
            /\ key[2] = <<r.board>>

\* C30: in downloader_kr every row with status done, of the table in memory
\* and of the manifest file, has a series file of its symbol in the data
\* directory (the downloader itself never deletes one).
C30_DoneHasFile ==
    market = "KR" =>
        /\ \A k \in 1..Len(mf) : mf[k].status = "done" => HasSeries(mf[k])
        /\ \A k \in 1..Len(manifest.rows) :
              manifest.rows[k].status = "done" => HasSeries(manifest.rows[k])

\* a second run has marked a row done in memory while the manifest file holds
\* a done row of the first run
C30_Witness ==
    /\ market = "KR"
    /\ run = 2
    /\ \E i \in UnitIds :
          /\ units[i].pc = "drained"
          /\ units[i].status = "done"
          /\ mf[units[i].idx].status = "done"
          /\ manifest.rows[units[i].idx].status # "done"
    /\ PersistedWith({"done"}) # {}

\* ---------------------------------------------------------------------
\* main.py: main() and run_market_pipeline
\* ---------------------------------------------------------------------

\* lines 90-97: the keys of markets_config, in insertion order
markets_config ==
    <<"tw-share", "hk-share", "cn-share", "jp-share", "kr-share", "us-share">>

\* lines 28-39: the market ids that the if-chain of Step 1 knows
KnownIds == {"tw-share", "us-share", "hk-share", "cn-share", "jp-share", "kr-share"}

\* the variables of the downloaders, which main.py does not touch: a call of
\* downloader_<x>.main() is seen here by how it ends
downloaderVars ==
    <<market, scale, maxruns, run, mainpc, items, units, stats, drained, files, ticks, ret,
      prev, today, listCache, fail_list, audit, mf, manifest>>

\* how a call of downloader_<x>.main() ends for its caller: it returns, or an
\* Exception leaves it (TW: ZeroDivisionError on an empty catalog; KR: the
\* errors of the manifest file). downloader_hk is imported at line 10 and
\* called at line 33 like the other five.
DownloaderEnds == {"returned", "raised"}

\* analyzer.run_global_analysis, lines 96-199 of analyzer.py, for its caller:
\* an empty table (no CSV file, line 110, or no usable one), a table with
\* rows, or an exception
AnalysisEnds == {"empty", "rows", "raised"}

\* the steps that began so far, oldest first
Began(id, step) == Append(pipeline.log, <<id, step>>)

\* main, lines 99-106: the pipelines to run, for the mode of line 78
Pipe_Dispatch ==
    /\ pipeline.pc = "main"
    /\ pipeline' = [pipeline EXCEPT
                       !.pc = "loop",
                       !.todo = IF pipeline.mode = "all" THEN markets_config
                                ELSE IF pipeline.mode \in {markets_config[k] : k \in 1..Len(markets_config)}
                                     THEN <<pipeline.mode>> ELSE <<>>]
    /\ UNCHANGED downloaderVars

\* lines 102 and 106, then lines 17-26: run_market_pipeline is entered for the
\* next market
Pipe_Call ==
    /\ pipeline.pc = "loop"
    /\ pipeline.todo # <<>>
    /\ pipeline' = [pipeline EXCEPT
                       !.pc = "step1",
                       !.cur = Head(pipeline.todo),
                       !.todo = Tail(pipeline.todo),
                       !.dl = "none",
                       !.an = "none"]
    /\ UNCHANGED downloaderVars

\* lines 40-42: an id outside the if-chain returns before Step 2
Pipe_Unknown ==
    /\ pipeline.pc = "step1"
    /\ pipeline.cur \notin KnownIds
    /\ pipeline' = [pipeline EXCEPT !.pc = "loop"]
    /\ UNCHANGED downloaderVars

\* Step 1, lines 27-45: the downloader of the market is called; an Exception
\* it raises is printed (line 44) and the function goes on to line 47
Pipe_Download(o) ==
    /\ pipeline.pc = "step1"
    /\ pipeline.cur \in KnownIds
    /\ pipeline' = [pipeline EXCEPT
                       !.pc = "step2",
                       !.dl = o,
                       !.log = Began(pipeline.cur, "download"),
                       !.failed = IF o = "raised" THEN @ \cup {pipeline.cur} ELSE @]
    /\ UNCHANGED downloaderVars

\* Step 2, lines 47-56 and 68-70: the analysis is called; an empty table
\* returns (line 54), an exception is printed (line 70) and the function ends
Pipe_Analyse(o) ==
    /\ pipeline.pc = "step2"
    /\ pipeline' = [pipeline EXCEPT
                       !.pc = IF o = "rows" THEN "step3" ELSE "loop",
                       !.an = o,
                       !.log = Began(pipeline.cur, "analysis"),
                       !.failed = IF o = "raised" THEN @ \cup {pipeline.cur} ELSE @]
    /\ UNCHANGED downloaderVars

\* Step 3, lines 59-70: line 60 looks up send_stock_report in the module
\* notifier, which defines it only as a method of the class StockNotifier
\* (notifier.py, lines 8 and 35): the lookup raises AttributeError before
\* anything is called, line 68 catches it and line 70 prints it
Pipe_Send ==
    /\ pipeline.pc = "step3"
    /\ pipeline' = [pipeline EXCEPT
                       !.pc = "loop",
                       !.log = Began(pipeline.cur, "report"),
                       !.failed = @ \cup {pipeline.cur}]
    /\ UNCHANGED downloaderVars

\* lines 108-113: no pipeline is left and main() prints the duration
Pipe_End ==
    /\ pipeline.pc = "loop"
    /\ pipeline.todo = <<>>
    /\ pipeline' = [pipeline EXCEPT !.pc = "end"]
    /\ UNCHANGED downloaderVars

\* main() after parse_args (line 78) with one of the modes that argparse
\* accepts (lines 75-76), or run_market_pipeline called on its own with any id
InitPipe ==
    /\ market = "TW"
    /\ scale = "small"
    /\ maxruns = 1
    /\ run = 0
    /\ mainpc = "idle"
    /\ items = <<>>
    /\ units = <<>>
    /\ stats = ZeroStats
    /\ drained = 0
    /\ files = <<>>
    /\ ticks = 0
    /\ ret = [kind |-> "none"]
    /\ prev = <<>>
    /\ today = 0
    /\ listCache = NoCache
    /\ fail_list = <<>>
    /\ audit = <<>>
    /\ mf = <<>>
    /\ manifest = [exists |-> FALSE, rows |-> <<>>]
    /\ \/ \E m \in KnownIds \cup {"all"} :
             pipeline = [pc |-> "main", mode |-> m, todo |-> <<>>, cur |-> "",
                         dl |-> "none", an |-> "none", log |-> <<>>, failed |-> {},
                         notified |-> {}]
       \/ \E id \in KnownIds \cup {"xx-share"} :
             pipeline = [pc |-> "loop", mode |-> "call", todo |-> <<id>>, cur |-> "",
                         dl |-> "none", an |-> "none", log |-> <<>>, failed |-> {},
                         notified |-> {}]

NextPipe ==
    \/ Pipe_Dispatch
    \/ Pipe_Call
    \/ Pipe_Unknown
    \/ \E o \in DownloaderEnds : Pipe_Download(o)
    \/ \E o \in AnalysisEnds : Pipe_Analyse(o)
    \/ Pipe_Send
    \/ Pipe_End

\* main.py is one thread and every call in it is taken to end, so a step that
\* can be taken is taken
SpecPipe == InitPipe /\ [][NextPipe]_vars /\ WF_vars(NextPipe)

\* ---------------------------------------------------------------------
\* The order of the steps in main.py
\* ---------------------------------------------------------------------

\* the ids of the markets whose download step began, oldest first
DownloadsBegun ==
    LET d == SelectSeq(pipeline.log, LAMBDA e : e[2] = "download")
    IN  [k \in 1..Len(d) |-> d[k][1]]

\* an analysis follows the download of its market and a report follows the
\* analysis of its market, with no step of another market in between, and no
\* market is downloaded twice
StepsInOrder ==
    \A k \in 1..Len(pipeline.log) :
        LET e == pipeline.log[k]
        IN  /\ e[2] = "download" => \A j \in 1..(k - 1) : pipeline.log[j][1] # e[1]
            /\ e[2] = "analysis" => k > 1 /\ pipeline.log[k - 1] = <<e[1], "download">>
            /\ e[2] = "report" => k > 1 /\ pipeline.log[k - 1] = <<e[1], "analysis">>

\* in all mode the downloads begin in the order of markets_config, and main()
\* ends after all six
AllInConfigOrder ==
    pipeline.mode = "all" =>
        /\ Len(DownloadsBegun) <= Len(markets_config)
        /\ DownloadsBegun = SubSeq(markets_config, 1, Len(DownloadsBegun))
        /\ pipeline.pc = "end" => DownloadsBegun = markets_config

\* Step 1 of a known market goes on to Step 2 however the downloader ended,
\* and a report begins only on an analysis that gave rows
PipelineStep ==
    /\ pipeline.pc = "step1" /\ pipeline.cur \in KnownIds =>
          pipeline'.pc = "step2" /\ pipeline'.log = Began(pipeline.cur, "download")
    /\ pipeline.pc = "step2" =>
          pipeline'.log = Began(pipeline.cur, "analysis")
    /\ pipeline'.log # pipeline.log /\ pipeline'.log[Len(pipeline'.log)][2] = "report" =>
          pipeline.an = "rows" /\ pipeline.pc = "step3"

\* C31: for a known market the steps run in the order download, analysis,
\* report, the report of a market being handed to the notifier once its
\* analysis gave rows and never otherwise; a downloader that raised is
\* followed by the analysis of its market all the same; and in all mode the
\* six pipelines run one after another in the order of markets_config, each
\* begun whatever happened in the ones before, until main() ends.
C31_PipelineSequencing ==
    /\ [](StepsInOrder /\ AllInConfigOrder)
    /\ [][PipelineStep]_vars
    /\ \A id \in KnownIds :
          (pipeline.cur = id /\ pipeline.dl = "raised") ~>
              (\E k \in 1..Len(pipeline.log) : pipeline.log[k] = <<id, "analysis">>)
    /\ \A id \in KnownIds :
          (pipeline.cur = id /\ pipeline.an = "rows") ~> (id \in pipeline.notified)
    /\ (pipeline.mode = "all") ~> (pipeline.pc = "end")

====
